---- MODULE Spec2Model ----
(***************************************************************************)
(* A model of MoarVM's callsite interner (src/core/callsite.c) and of the  *)
(* spesh optimizer (src/spesh/optimize.c).                                 *)
(*                                                                         *)
(* Part I models the intern table: callsites live in a heap `mem`, handles *)
(* (`MVMCallsite *` variables whose address is passed as cs_ptr) live in   *)
(* `cs_ptr`, and every thread runs MVM_callsite_try_intern as a sequence   *)
(* of steps: precondition checks, uv_mutex_lock, the search loop, the      *)
(* store, uv_mutex_unlock.                                                 *)
(***************************************************************************)
EXTENDS Integers, Sequences, FiniteSets, TLC

(***************************************************************************)
(* Bounds of the model.                                                    *)
(***************************************************************************)
\* Number of threads calling the interner.
NumThreads == 2
\* Number of callsite handles the compiler has created (besides the static
\* callsite_inv_arg).
MaxHandles == 3
\* How many calls may pass a handle that already went through the interner
\* (only the specification SpecAny makes such calls).
MaxRecalls == 1

(***************************************************************************)
(* Program constants.                                                      *)
(***************************************************************************)
\* Callsites with this many flags or more are not interned.
MVM_INTERN_ARITY_LIMIT == 8
\* The only common callsite id that is defined.
MVM_CALLSITE_ID_INV_ARG == 0
\* Argument flag bytes: an object, a native int, a named object argument
\* (MVM_CALLSITE_ARG_NAMED | MVM_CALLSITE_ARG_OBJ) and a flattened object
\* argument (MVM_CALLSITE_ARG_FLAT | MVM_CALLSITE_ARG_OBJ).
ARG_OBJ == "OBJ"
ARG_INT == "INT"
ARG_NAMED_OBJ == "NAMED|OBJ"
ARG_FLAT_OBJ == "FLAT|OBJ"

Threads == 1 .. NumThreads
MainThread == 1
\* Handle 0 is the static variable callsite_inv_arg; 1..MaxHandles are the
\* handles of callsites made by the compiler.
StaticHandle == 0
Handles == 0 .. MaxHandles
\* Address 0 is the static object inv_arg_callsite; address h is the heap
\* object first referred to by handle h.
StaticAddr == 0
Addrs == 0 .. MaxHandles
Arities == 0 .. (MVM_INTERN_ARITY_LIMIT - 1)
\* Ids MVM_callsite_get_common is called with: the defined one and one that
\* is not defined.
CommonIds == {MVM_CALLSITE_ID_INV_ARG, MVM_CALLSITE_ID_INV_ARG + 1}

VARIABLES
    mem,          \* heap: address -> MVMCallsite (with its allocation state)
    cs_ptr,       \* handle -> address held by that MVMCallsite * variable
    by_arity,     \* interns->by_arity: arity -> sequence of addresses
    alloc_arity,  \* allocated length of each by_arity[n] array
    mutex,        \* mutex_callsite_interns: 0 when free, else the owner
    pc,           \* where each thread is inside MVM_callsite_try_intern
    frame,        \* the locals of each thread's running call
    passed,       \* handles that have been passed through try_intern
    recalls,      \* calls made so far with an already passed handle
    last,         \* what each thread's last finished call did
    common_ret    \* the result of the last MVM_callsite_get_common

csvars == <<mem, cs_ptr, by_arity, alloc_arity, mutex, pc, frame, passed,
            recalls, last, common_ret>>

\* The state of the spesh optimizer (Part II).
VARIABLES
    graph,        \* the MVMSpeshGraph being optimized
    opc,          \* where MVM_spesh_optimize is: phase, run, block, ...
    call_info,    \* the MVMSpeshCallInfo of the running optimize_bb
    seen,         \* the seen array of the running eliminate_dead_bbs
    graph_prev,   \* the graph as the previous run left it
    graph_in      \* the graph as it was handed to the optimizer

optvars == <<graph, opc, call_info, seen, graph_prev, graph_in>>

\* The state of the heap snapshot profiler (Part III).
VARIABLES
    heap_snapshots,  \* tc->instance->heap_snapshots: NULL or the collection
    ss,              \* the MVMHeapSnapshotState of the running record_snapshot
    hpc,             \* where the profiler is
    taken            \* the collectable indexes popped by process_workitems

hsvars == <<heap_snapshots, ss, hpc, taken>>

(***************************************************************************)
(* Strings: an MVMString is an object with contents; two objects may hold  *)
(* the same characters.                                                    *)
(***************************************************************************)
StrX1 == [obj |-> 1, chars |-> "x"]
StrX2 == [obj |-> 2, chars |-> "x"]
StrY  == [obj |-> 3, chars |-> "y"]

\* A comparison of names by object identity.
MVM_string_equal_ByPointer(a, b) == a.obj = b.obj

\* MVM_string_equal compares contents, not object identity.
MVM_string_equal(a, b) == a.chars = b.chars

\* arg_names == <<>> stands for a NULL arg_names pointer.
IsNullNames(names) == names = <<>>

RepeatFlag(f, n) == [i \in 1 .. n |-> f]

Callsite(flags, count, pos, flat, names) ==
    [arg_flags |-> flags, arg_count |-> count, num_pos |-> pos,
     has_flattening |-> flat, is_interned |-> 0, arg_names |-> names,
     live |-> TRUE]

\* static MVMCallsite inv_arg_callsite = { obj_arg_flags, 1, 1, 0, 0, 0, 0 }
inv_arg_callsite == Callsite(<<ARG_OBJ>>, 1, 1, 0, <<>>)

\* The callsites the compiler hands to the interner: well formed (one flag
\* per positional and per named argument, arg_count counting a named one
\* twice, names given in order when they are known).
FreshCallsites ==
    { Callsite(<<ARG_OBJ>>, 1, 1, 0, <<>>),
      Callsite(<<ARG_OBJ, ARG_OBJ>>, 2, 2, 0, <<>>),
      Callsite(<<ARG_OBJ, ARG_NAMED_OBJ>>, 3, 1, 0, <<StrX1>>),
      Callsite(<<ARG_OBJ, ARG_NAMED_OBJ>>, 3, 1, 0, <<StrX2>>),
      Callsite(<<ARG_OBJ, ARG_NAMED_OBJ>>, 3, 1, 0, <<StrY>>),
      Callsite(<<ARG_OBJ, ARG_NAMED_OBJ>>, 3, 1, 0, <<>>),
      Callsite(<<ARG_OBJ, ARG_FLAT_OBJ>>, 2, 2, 1, <<>>),
      Callsite(RepeatFlag(ARG_OBJ, MVM_INTERN_ARITY_LIMIT),
               MVM_INTERN_ARITY_LIMIT, MVM_INTERN_ARITY_LIMIT, 0, <<>>) }

\* num_nameds and num_flags as try_intern computes them.
NumNameds(cs) == (cs.arg_count - cs.num_pos) \div 2
NumFlags(cs) == cs.num_pos + NumNameds(cs)

\* memcmp(cs1->arg_flags, cs2->arg_flags, num_flags) == 0
FlagsMemcmpEqual(cs1, cs2, num_flags) ==
    \A i \in 1 .. num_flags : cs1.arg_flags[i] = cs2.arg_flags[i]

callsites_equal(cs1, cs2, num_flags, num_nameds) ==
    /\ FlagsMemcmpEqual(cs1, cs2, num_flags)
    /\ \A i \in 1 .. num_nameds :
          MVM_string_equal(cs1.arg_names[i], cs2.arg_names[i])

\* The early returns without the one for flattening.
CannotIntern_NoFlatCheck(cs) ==
    \/ (NumNameds(cs) > 0 /\ IsNullNames(cs.arg_names))
    \/ NumFlags(cs) >= MVM_INTERN_ARITY_LIMIT

\* The three early returns of MVM_callsite_try_intern.
CannotIntern(cs) ==
    \/ cs.has_flattening # 0
    \/ (NumNameds(cs) > 0 /\ IsNullNames(cs.arg_names))
    \/ NumFlags(cs) >= MVM_INTERN_ARITY_LIMIT

\* The thread that owns a handle: the static handle belongs to the main
\* thread, the others are dealt round robin.
Owner(h) == IF h = StaticHandle THEN MainThread ELSE ((h - 1) % NumThreads) + 1

NoFrame == [h |-> 0, cs |-> 0, num_nameds |-> 0, num_flags |-> 0, found |-> 0,
            hit |-> 0]
NoCall == [op |-> "none", h |-> 0, cs |-> 0]
NoRet == [called |-> FALSE, id |-> 0, val |-> 0, error |-> FALSE]

\* MVM_callsite_initialize_common has returned.
CommonInitialized ==
    /\ StaticHandle \in passed
    /\ \A t \in Threads : pc[t] # "idle" => frame[t].h # StaticHandle

CsInit ==
    /\ mem \in { m \in [Addrs -> FreshCallsites \cup {inv_arg_callsite}] :
                    m[StaticAddr] = inv_arg_callsite }
    /\ cs_ptr = [h \in Handles |-> h]
    /\ by_arity = [a \in Arities |-> <<>>]
    /\ alloc_arity = [a \in Arities |-> 0]
    /\ mutex = 0
    /\ pc = [t \in Threads |-> "idle"]
    /\ frame = [t \in Threads |-> NoFrame]
    /\ passed = {}
    /\ recalls = 0
    /\ last = [t \in Threads |-> NoCall]
    /\ common_ret = NoRet

(***************************************************************************)
(* MVM_callsite_try_intern(tc, cs_ptr), lines 41-57: read *cs_ptr, compute *)
(* the counts and return at once when the callsite cannot be interned.     *)
(***************************************************************************)
TryInternEnter(t, h) ==
    /\ pc[t] = "idle"
    /\ LET cs == cs_ptr[h]
           c  == mem[cs]
       IN /\ passed' = passed \cup {h}
          /\ IF CannotIntern(c)
             THEN /\ last' = [last EXCEPT ![t] = [op |-> "noop", h |-> h, cs |-> cs]]
                  /\ UNCHANGED <<pc, frame>>
             ELSE /\ pc' = [pc EXCEPT ![t] = "lock"]
                  /\ frame' = [frame EXCEPT ![t] =
                        [h |-> h, cs |-> cs, num_nameds |-> NumNameds(c),
                         num_flags |-> NumFlags(c), found |-> 0, hit |-> 0]]
                  /\ UNCHANGED last
    /\ UNCHANGED <<mem, cs_ptr, by_arity, alloc_arity, mutex, recalls, common_ret>>
    /\ UNCHANGED <<optvars, hsvars>>

\* A lock that does not wait.
MutexFree_NoWait == TRUE

\* uv_mutex_lock(&tc->instance->mutex_callsite_interns), line 60.
MutexFree == mutex = 0

Lock(t) ==
    /\ pc[t] = "lock"
    /\ MutexFree
    /\ mutex' = t
    /\ pc' = [pc EXCEPT ![t] = "search"]
    /\ UNCHANGED <<mem, cs_ptr, by_arity, alloc_arity, frame, passed, recalls,
                   last, common_ret>>
    /\ UNCHANGED <<optvars, hsvars>>

\* The index of the first entry of the bucket equal to the callsite, or 0.
FirstMatch(bucket, c, num_flags, num_nameds) ==
    LET hits == { i \in 1 .. Len(bucket) :
                    callsites_equal(mem[bucket[i]], c, num_flags, num_nameds) }
    IN IF hits = {} THEN 0
       ELSE CHOOSE i \in hits : \A j \in hits : i <= j

\* MVM_free(cs->arg_flags) (when num_flags > 0) and MVM_free(cs).
FreeCallsite(m, cs) == [m EXCEPT ![cs].live = FALSE]

\* The search loop, lines 63-75.
Search(t) ==
    /\ pc[t] = "search"
    /\ LET f == frame[t]
           i == FirstMatch(by_arity[f.num_flags], mem[f.cs], f.num_flags,
                           f.num_nameds)
       IN IF i # 0
          THEN /\ mem' = FreeCallsite(mem, f.cs)
               /\ cs_ptr' = [cs_ptr EXCEPT ![f.h] = by_arity[f.num_flags][i]]
               /\ frame' = [frame EXCEPT ![t].found = 1, ![t].hit = i]
          ELSE /\ frame' = [frame EXCEPT ![t].found = 0]
               /\ UNCHANGED <<mem, cs_ptr>>
    /\ pc' = [pc EXCEPT ![t] = "store"]
    /\ UNCHANGED <<by_arity, alloc_arity, mutex, passed, recalls, last,
                   common_ret>>
    /\ UNCHANGED <<optvars, hsvars>>

\* The allocated length after the growth test of lines 79-86.
GrownAlloc(num, alloc) == IF num % 8 = 0 THEN num + 8 ELSE alloc

\* A store at the front of the bucket.
AppendEntry_AtFront(bucket, cs) == <<cs>> \o bucket

\* by_arity[num_flags][num_by_arity[num_flags]++] = cs, line 87.
AppendEntry(bucket, cs) == Append(bucket, cs)

\* cs->is_interned = 1, line 88.
MarkInterned(m, cs) == [m EXCEPT ![cs].is_interned = 1]

\* "If it wasn't found, store it for the future", lines 78-89.
Store(t) ==
    /\ pc[t] = "store"
    /\ LET f == frame[t]
           n == f.num_flags
       IN IF f.found = 0
          THEN /\ alloc_arity' = [alloc_arity EXCEPT ![n] =
                                     GrownAlloc(Len(by_arity[n]), alloc_arity[n])]
               /\ by_arity' = [by_arity EXCEPT ![n] = AppendEntry(by_arity[n], f.cs)]
               /\ mem' = MarkInterned(mem, f.cs)
          ELSE UNCHANGED <<alloc_arity, by_arity, mem>>
    /\ pc' = [pc EXCEPT ![t] = "unlock"]
    /\ UNCHANGED <<cs_ptr, mutex, frame, passed, recalls, last, common_ret>>
    /\ UNCHANGED <<optvars, hsvars>>

\* A return that keeps the mutex.
ReleasedMutex_Kept(t) == t

\* uv_mutex_unlock and return, line 92.
ReleasedMutex(t) == 0

Unlock(t) ==
    /\ pc[t] = "unlock"
    /\ mutex' = ReleasedMutex(t)
    /\ pc' = [pc EXCEPT ![t] = "idle"]
    /\ last' = [last EXCEPT ![t] =
                  [op |-> IF frame[t].found = 1 THEN "hit" ELSE "miss",
                   h |-> frame[t].h, cs |-> frame[t].cs]]
    /\ frame' = [frame EXCEPT ![t] = NoFrame]
    /\ UNCHANGED <<mem, cs_ptr, by_arity, alloc_arity, passed, recalls,
                   common_ret>>
    /\ UNCHANGED <<optvars, hsvars>>

\* The handles a thread interns: its own, in increasing order, each once.
NextHandle(t, h) ==
    /\ h # StaticHandle
    /\ Owner(h) = t
    /\ h \notin passed
    /\ \A k \in 1 .. (h - 1) : Owner(k) = t => k \in passed

\* A thread interns a callsite made by the compiler.
TryIntern(t, h) ==
    /\ CommonInitialized
    /\ NextHandle(t, h)
    /\ TryInternEnter(t, h)

\* MVM_callsite_initialize_common(instance), lines 34-36, at VM start.
MVM_callsite_initialize_common ==
    /\ StaticHandle \notin passed
    /\ TryInternEnter(MainThread, StaticHandle)

\* A switch whose default case returns the callsite as well.
GetCommonResult_NoThrow(id) ==
    [called |-> TRUE, id |-> id, val |-> cs_ptr[StaticHandle], error |-> FALSE]

\* MVM_callsite_get_common(tc, id), lines 24-32.
GetCommonResult(id) ==
    IF id = MVM_CALLSITE_ID_INV_ARG
    THEN [called |-> TRUE, id |-> id, val |-> cs_ptr[StaticHandle], error |-> FALSE]
    ELSE [called |-> TRUE, id |-> id, val |-> 0, error |-> TRUE]

MVM_callsite_get_common(id) ==
    /\ common_ret' = GetCommonResult(id)
    /\ UNCHANGED <<mem, cs_ptr, by_arity, alloc_arity, mutex, pc, frame, passed,
                   recalls, last>>
    /\ UNCHANGED <<optvars, hsvars>>

\* A call with a handle that went through the interner before: the same
\* handle again, or MVM_callsite_initialize_common a second time.
TryInternAgain(t, h) ==
    /\ recalls < MaxRecalls
    /\ h \in passed
    /\ Owner(h) = t
    /\ \A u \in Threads : pc[u] # "idle" => frame[u].h # h
    /\ recalls' = recalls + 1
    /\ pc[t] = "idle"
    /\ LET cs == cs_ptr[h]
           c  == mem[cs]
       IN IF CannotIntern(c)
          THEN /\ last' = [last EXCEPT ![t] = [op |-> "noop", h |-> h, cs |-> cs]]
               /\ UNCHANGED <<pc, frame>>
          ELSE /\ pc' = [pc EXCEPT ![t] = "lock"]
               /\ frame' = [frame EXCEPT ![t] =
                     [h |-> h, cs |-> cs, num_nameds |-> NumNameds(c),
                      num_flags |-> NumFlags(c), found |-> 0, hit |-> 0]]
               /\ UNCHANGED last
    /\ UNCHANGED <<mem, cs_ptr, by_arity, alloc_arity, mutex, passed, common_ret>>
    /\ UNCHANGED <<optvars, hsvars>>


(***************************************************************************)
(* Part II.  The spesh optimizer (src/spesh/optimize.c).                   *)
(*                                                                         *)
(* A spesh graph is a record                                               *)
(*   bbs          block id -> [ins, succ, children, linear_next, idx,      *)
(*                inlined]; ins is the instruction list, linear_next = 0   *)
(*                is the NULL at the end of the linear order               *)
(*   entry, num_bbs                                                        *)
(*   facts        register -> [flags, type, decont_type, value,            *)
(*                log_guard, usages]                                       *)
(*   spesh_slots, alloc_spesh_slots, log_guards, log_slots, arg_guards    *)
(*   next_id      identity of the next instruction that is allocated       *)
(* An instruction is [id, op, o]; o is its operand array, every operand    *)
(* [k, v] with k the member of the MVMSpeshOperand union last written.     *)
(***************************************************************************)
NULL == 0

\* Bounds of the optimizer model: the groups of instructions in the entry
\* block, the times MVM_spesh_optimize is run, the blocks of a graph given
\* to eliminate_dead_bbs.
MaxSnippets == 1
NumRuns     == 2
MaxBBs      == 3
MaxSlotAdds == 3
MaxSnapshots == 12

\* The fact flags the optimizer reads and writes.
KNOWN_TYPE        == "KNOWN_TYPE"
KNOWN_VALUE       == "KNOWN_VALUE"
DECONTED          == "DECONTED"
CONCRETE          == "CONCRETE"
TYPEOBJ           == "TYPEOBJ"
KNOWN_DECONT_TYPE == "KNOWN_DECONT_TYPE"
DECONT_CONCRETE   == "DECONT_CONCRETE"
DECONT_TYPEOBJ    == "DECONT_TYPEOBJ"
FROM_LOG_GUARD    == "FROM_LOG_GUARD"

MAX_ARGS_FOR_OPT   == 4
MVM_SPESH_LOG_RUNS == 8

\* Wrap-around of the fixed-width integer types of the code.
ToUint8(n)  == n % 256
ToUint16(n) == n % 65536
ToInt16(n)  == ((n + 32768) % 65536) - 32768

\* MVMnum64 result = value.i64: exact for every integer of magnitude up to
\* 2^53, which covers the values of the model.
IntToNum(n) == n

Reg(r)  == [k |-> "reg", v |-> r]
Lit(n)  == [k |-> "lit", v |-> n]
BBRef(b) == [k |-> "bb", v |-> b]
StrIdx(i) == [k |-> "str", v |-> i]
CsIdx(i) == [k |-> "cs", v |-> i]

Ins(id, op, o) == [id |-> id, op |-> op, o |-> o]

\* The operand kinds of every op (ins->info->operands): "w" a register that
\* is written, "r" a register that is read, otherwise a literal.  PHI has
\* one written register and any number of read ones.
OpOperands(op) ==
    CASE op \in {"set", "decont", "hllize", "coerce_in", "isconcrete",
                 "islist", "ishash", "isint", "isnum", "isstr", "isnonnull",
                 "create", "unbox_i", "elems"}        -> <<"w", "r">>
      [] op \in {"istype", "can_s", "box_i", "add_i"} -> <<"w", "r", "r">>
      [] op \in {"findmeth", "can"}                   -> <<"w", "r", "str">>
      [] op = "sp_findmeth"                    -> <<"w", "r", "str", "lit">>
      [] op \in {"if_i", "unless_i", "if_n", "unless_n", "if_o", "unless_o",
                 "if_s", "unless_s", "ifnonnull"}     -> <<"r", "bb">>
      [] op = "goto"                                  -> <<"bb">>
      [] op = "prepargs"                              -> <<"cs">>
      [] op \in {"arg_i", "arg_n", "arg_s", "arg_o"}  -> <<"lit", "r">>
      [] op \in {"argconst_i", "argconst_n", "argconst_s"} -> <<"lit", "lit">>
      [] op = "invoke_v"                              -> <<"r">>
      [] op \in {"invoke_i", "invoke_n", "invoke_s", "invoke_o"}
                                                      -> <<"w", "r">>
      [] op = "sp_fastinvoke_v"                       -> <<"r", "lit">>
      [] op \in {"sp_fastinvoke_i", "sp_fastinvoke_n", "sp_fastinvoke_s",
                 "sp_fastinvoke_o"}                   -> <<"w", "r", "lit">>
      [] op \in {"const_i64_16", "const_n64", "sp_getspeshslot"}
                                                      -> <<"w", "lit">>
      [] op \in {"getlexstatic_o", "getlexperinvtype_o"} -> <<"w", "str">>
      [] op \in {"sp_log", "sp_guardconc", "sp_guardtype"} -> <<"r", "lit">>
      [] op \in {"assertparamcheck", "say", "return_o"} -> <<"r">>
      [] op = "getattr_o"                    -> <<"w", "r", "r", "str", "lit">>
      [] op = "bindattr_o"                   -> <<"r", "r", "str", "r", "lit">>
      [] OTHER                                        -> <<>>

\* ins->info->pure
OpPure(op) ==
    op \in {"set", "decont", "hllize", "coerce_in", "isconcrete", "islist",
            "ishash", "isint", "isnum", "isstr", "isnonnull", "create",
            "unbox_i", "elems", "istype", "can", "can_s", "box_i", "add_i",
            "findmeth", "const_i64_16", "const_n64", "sp_getspeshslot",
            "getattr_o"}

\* The operand kinds of one instruction: those of its op, and for PHI one
\* written register followed by read ones (ins->info->num_operands).
InsOperands(ins) ==
    IF ins.op = "PHI"
    THEN [i \in 1..Len(ins.o) |-> IF i = 1 THEN "w" ELSE "r"]
    ELSE OpOperands(ins.op)

(***************************************************************************)
(* The object model the optimizer consults.  Types and objects are small   *)
(* integers; 0 is NULL.                                                    *)
(***************************************************************************)
CurrentHLL == 1

\* STABLE(type): the REPR, the owning HLL, whether it has a container spec
\* and the invocation spec of each type (has = 0: none; class_handle and
\* md_class_handle are NULL or the class that declares the attributes).  No
\* REPR and no container spec of the model has a spesh hook.
STable(repr, hll_owner, container_spec, has, class_handle, md_class_handle) ==
    [repr |-> repr, hll_owner |-> hll_owner,
     container_spec |-> container_spec,
     invocation_spec |-> [has |-> has, class_handle |-> class_handle,
                          md_class_handle |-> md_class_handle]]

\*   1  a class of the current HLL whose objects are invocable wrappers
\*   2  an array type of another HLL    3  a container type
\*   4  the type of code objects        5  a boxed integer type
\*   6  a class whose objects are multi-dispatch wrappers
STables ==
    <<STable("P6opaque", 1, FALSE, 1, 1, NULL),
      STable("MVMArray", 2, FALSE, 0, NULL, NULL),
      STable("P6opaque", 1, TRUE,  0, NULL, NULL),
      STable("MVMCode",  1, FALSE, 0, NULL, NULL),
      STable("P6int",    1, FALSE, 0, NULL, NULL),
      STable("P6opaque", 1, FALSE, 1, 1, 1)>>

Types == 1..Len(STables)

REPR(type) == STables[type].repr

\* cu->body.strings
Strings == <<"greet", "missing">>

MVM_spesh_get_string(o) == Strings[o.v + 1]

\* An object: its type, whether it is concrete, the boolification mode of
\* its type and what MVM_coerce_istrue gives for it, for a code object
\* whether it is a compiler stub, for an invocable wrapper the value of the
\* attribute its invocation spec names, and for a multi-dispatch wrapper
\* the values of its md_valid and md_cache attributes.
Obj(type, concrete, bool_mode, istrue, stub, attr, md_valid, md_cache) ==
    [type |-> type, concrete |-> concrete, bool_mode |-> bool_mode,
     istrue |-> istrue, is_compiler_stub |-> stub, invoke_attr |-> attr,
     md_valid |-> md_valid, md_cache |-> md_cache]

\* The objects a graph can refer to:
\*   1  a code object with specializations
\*   2  a code object without specializations
\*   3  a wrapper whose attribute holds code object 1
\*   4  a wrapper whose attribute holds code object 2
\*   5  a boxed integer that is true     6  a boxed integer that is false
\*   7  an object whose truth is found by calling a method
\*   8  the type object of type 1
\*   9  an array, which is true
\*  10  a code object that is a compiler stub
\*  11  a wrapper whose attribute holds code object 10
\*  12  a multi-dispatch wrapper with a valid cache, object 13
\*  13  a multi-dispatch cache, in which every call finds wrapper 3
\*  14  a multi-dispatch wrapper whose cache is not valid
\*  15  a code object with specializations of further kinds
Objects ==
    <<Obj(4, TRUE,  "NOT_TYPE_OBJECT", 1, FALSE, NULL, 0, NULL),
      Obj(4, TRUE,  "NOT_TYPE_OBJECT", 1, FALSE, NULL, 0, NULL),
      Obj(1, TRUE,  "NOT_TYPE_OBJECT", 1, FALSE, 1,    0, NULL),
      Obj(1, TRUE,  "NOT_TYPE_OBJECT", 1, FALSE, 2,    0, NULL),
      Obj(5, TRUE,  "UNBOX_INT",       1, FALSE, NULL, 0, NULL),
      Obj(5, TRUE,  "UNBOX_INT",       0, FALSE, NULL, 0, NULL),
      Obj(3, TRUE,  "CALL_METHOD",     1, FALSE, NULL, 0, NULL),
      Obj(1, FALSE, "NOT_TYPE_OBJECT", 0, FALSE, NULL, 0, NULL),
      Obj(2, TRUE,  "HAS_ELEMS",       1, FALSE, NULL, 0, NULL),
      Obj(4, TRUE,  "NOT_TYPE_OBJECT", 1, TRUE,  NULL, 0, NULL),
      Obj(1, TRUE,  "NOT_TYPE_OBJECT", 1, FALSE, 10,   0, NULL),
      Obj(6, TRUE,  "NOT_TYPE_OBJECT", 1, FALSE, NULL, 1, 13),
      Obj(2, TRUE,  "NOT_TYPE_OBJECT", 1, FALSE, NULL, 0, NULL),
      Obj(6, TRUE,  "NOT_TYPE_OBJECT", 1, FALSE, NULL, 0, 13),
      Obj(4, TRUE,  "NOT_TYPE_OBJECT", 1, FALSE, NULL, 0, NULL)>>

IS_CONCRETE(obj) == Objects[obj].concrete

WHAT(obj) == Objects[obj].type

\* MVM_6model_find_method_cache_only: type 1 has a method "greet", which is
\* code object 2; nothing else is in a method cache.
MVM_6model_find_method_cache_only(type, name) ==
    IF type = 1 /\ name = "greet" THEN 2 ELSE NULL

\* MVM_6model_try_cache_type_check: <<answered, result>>.  The type check
\* cache of type 1 lists type 1, that of type 2 is empty, the other types
\* have no cache.
MVM_6model_try_cache_type_check(obj_type, type) ==
    CASE obj_type = 1 -> <<1, IF type = 1 THEN 1 ELSE 0>>
      [] obj_type = 2 -> <<1, 0>>
      [] OTHER        -> <<0, 0>>

\* MVM_coerce_istrue for the boolification modes that need no call.
MVM_coerce_istrue(obj) == Objects[obj].istrue

\* REPR(obj)->ID == MVM_REPR_ID_MVMCode; the null object is not code.
IsCode(obj) == obj # NULL /\ REPR(WHAT(obj)) = "MVMCode"

invocation_spec(obj) == STables[WHAT(obj)].invocation_spec

\* attr_funcs.get_attribute with the class handle and attribute name of an
\* invocation spec: every wrapper class of the model inherits the
\* attribute from the one class the specs name.
get_attribute(obj, class_handle) == Objects[obj].invoke_attr

\* MVM_multi_cache_find_spesh: what the cache finds for the arguments.
MVM_multi_cache_find_spesh(cache, arg_info) ==
    IF cache = 13 THEN 3 ELSE NULL

\* sf->body.spesh_candidates of a code object: the callsite each candidate
\* was made for and its guards.  No candidate of the model can be inlined
\* (MVM_spesh_inline_try_get_graph gives NULL).
SpeshCandidates(code) ==
    CASE code = 1 ->
         <<[cs |-> 1, guards |-> <<[slot |-> 0, kind |-> "CONC", match |-> 1]>>],
           [cs |-> 1, guards |-> <<[slot |-> 0, kind |-> "TYPE", match |-> 1]>>],
           [cs |-> 2, guards |-> <<[slot |-> MAX_ARGS_FOR_OPT, kind |-> "CONC",
                                    match |-> 1]>>]>>
      [] code = 15 ->
         <<[cs |-> 1, guards |-> <<[slot |-> 0, kind |-> "OTHER", match |-> 1]>>],
           [cs |-> 1, guards |-> <<[slot |-> 0, kind |-> "DC_CONC", match |-> 1],
                                   [slot |-> 1, kind |-> "DC_TYPE", match |-> 2]>>],
           [cs |-> 2, guards |-> <<>>],
           [cs |-> 1, guards |-> <<[slot |-> 1, kind |-> "CONC", match |-> 2]>>],
           [cs |-> 1, guards |-> <<[slot |-> 0, kind |-> "DC_CONC",
                                    match |-> 1]>>]>>
      [] OTHER -> <<>>

\* cu->body.callsites: callsite index -> interned callsite
CuCallsites == <<1, 2>>

(***************************************************************************)
(* Graph primitives.                                                       *)
(***************************************************************************)
HasIns(insns, id) == \E i \in 1..Len(insns) : insns[i].id = id

IndexOfIns(insns, id) == CHOOSE i \in 1..Len(insns) : insns[i].id = id

RemoveAt(s, i) == SubSeq(s, 1, i - 1) \o SubSeq(s, i + 1, Len(s))

InsertAt(s, i, e) == SubSeq(s, 1, i - 1) \o <<e>> \o SubSeq(s, i, Len(s))

\* ins->next and ins->prev within a block, 0 when there is none
NextInsId(insns, id) ==
    LET i == IndexOfIns(insns, id)
    IN IF i < Len(insns) THEN insns[i + 1].id ELSE NULL

PrevInsId(insns, id) ==
    LET i == IndexOfIns(insns, id)
    IN IF i > 1 THEN insns[i - 1].id ELSE NULL

\* The instruction of block b with the given identity.
InsOf(g, b, id) == g.bbs[b].ins[IndexOfIns(g.bbs[b].ins, id)]

\* A change of the instruction in place (ins->info, ins->operands).
SetIns(g, b, ins) ==
    [g EXCEPT !.bbs[b].ins =
        [i \in DOMAIN @ |-> IF @[i].id = ins.id THEN ins ELSE @[i]]]

\* MVM_spesh_manipulate_delete_ins: unlinks the instruction from the list
\* of its block.
MVM_spesh_manipulate_delete_ins(g, b, id) ==
    IF HasIns(g.bbs[b].ins, id)
    THEN [g EXCEPT !.bbs[b].ins = RemoveAt(@, IndexOfIns(@, id))]
    ELSE g

\* MVM_spesh_manipulate_insert_ins: links to_insert after previous, or at
\* the start of the block when previous is NULL.
MVM_spesh_manipulate_insert_ins(g, b, previous, to_insert) ==
    IF previous = NULL
    THEN [g EXCEPT !.bbs[b].ins = <<to_insert>> \o @]
    ELSE [g EXCEPT !.bbs[b].ins =
              InsertAt(@, IndexOfIns(@, previous) + 1, to_insert)]

\* MVM_spesh_manipulate_remove_successor: takes succ out of the successors
\* of block b.
MVM_spesh_manipulate_remove_successor(g, b, succ) ==
    IF \E i \in 1..Len(g.bbs[b].succ) : g.bbs[b].succ[i] = succ
    THEN [g EXCEPT !.bbs[b].succ =
              RemoveAt(@, CHOOSE i \in 1..Len(@) : @[i] = succ)]
    ELSE g

\* get_facts_direct
get_facts_direct(g, o) == g.facts[o.v]

\* MVM_spesh_get_facts: the graph after the lookup, which records that the
\* log guard behind the facts is used.
MVM_spesh_get_facts_KeepUnused(g, o) == g

MVM_spesh_get_facts(g, o) ==
    IF FROM_LOG_GUARD \in g.facts[o.v].flags
    THEN [g EXCEPT !.log_guards[g.facts[o.v].log_guard + 1].used = 1]
    ELSE g

\* A counter that is left as it is.
DecUsages_Keep(g, o) == g

\* facts->usages--
DecUsages(g, o) == [g EXCEPT !.facts[o.v].usages = @ - 1]

\* facts->flags |= ...
AddFlags(g, o, flags) == [g EXCEPT !.facts[o.v].flags = @ \cup flags]

copy_facts(g, to, from) ==
    [g EXCEPT !.facts[to.v] =
        [@ EXCEPT !.flags       = g.facts[from.v].flags,
                  !.type        = g.facts[from.v].type,
                  !.decont_type = g.facts[from.v].decont_type,
                  !.value       = g.facts[from.v].value,
                  !.log_guard   = g.facts[from.v].log_guard]]

\* A slot table that holds one value only, at index 0.
MVM_spesh_add_spesh_slot_Single(g, c) ==
    [g  |-> [g EXCEPT !.spesh_slots = <<c>>], ss |-> 0]

\* MVM_spesh_add_spesh_slot: the graph with the value appended and the
\* index that is returned, an MVMint16.
MVM_spesh_add_spesh_slot(g, c) ==
    [g  |-> [g EXCEPT !.alloc_spesh_slots =
                          IF Len(g.spesh_slots) >= @ THEN @ + 8 ELSE @,
                      !.spesh_slots = Append(@, c)],
     ss |-> ToInt16(Len(g.spesh_slots))]

(***************************************************************************)
(* The rewrite rules.  Each gives the graph after the rule has looked at   *)
(* instruction ins of block b.  Operand n of the code is ins.o[n + 1].     *)
(***************************************************************************)
optimize_method_lookup(g, b, ins) ==
    LET g1        == MVM_spesh_get_facts(g, ins.o[2])
        obj_facts == get_facts_direct(g1, ins.o[2])
        meth      == IF KNOWN_TYPE \in obj_facts.flags
                     THEN MVM_6model_find_method_cache_only(obj_facts.type,
                              MVM_spesh_get_string(ins.o[3]))
                     ELSE NULL
    IN IF meth # NULL
       THEN LET a  == MVM_spesh_add_spesh_slot(g1, meth)
                g2 == MVM_spesh_get_facts(a.g, ins.o[1])
                g3 == [AddFlags(g2, ins.o[1], {KNOWN_VALUE})
                          EXCEPT !.facts[ins.o[1].v].value = meth]
                g4 == DecUsages(MVM_spesh_get_facts(g3, ins.o[2]), ins.o[2])
            IN SetIns(g4, b, [ins EXCEPT !.op = "sp_getspeshslot",
                                         !.o[2] = Lit(a.ss)])
       ELSE LET a  == MVM_spesh_add_spesh_slot(g1, NULL)
                a2 == MVM_spesh_add_spesh_slot(a.g, NULL)
            IN SetIns(a2.g, b, [ins EXCEPT !.op = "sp_findmeth",
                                   !.o = SubSeq(ins.o, 1, 3) \o <<Lit(a.ss)>>])

\* A rewrite to the constant that does not touch the usages counters.
optimize_istype_KeepUsages(g, b, ins) ==
    LET obj_facts  == get_facts_direct(g, ins.o[2])
        type_facts == get_facts_direct(g, ins.o[3])
        check      == MVM_6model_try_cache_type_check(obj_facts.type,
                                                      type_facts.type)
    IN IF /\ KNOWN_TYPE \in type_facts.flags
          /\ KNOWN_TYPE \in obj_facts.flags
          /\ check[1] # 0
       THEN SetIns([AddFlags(g, ins.o[1], {KNOWN_VALUE})
                       EXCEPT !.facts[ins.o[1].v].value = check[2]],
                   b, [ins EXCEPT !.op = "const_i64_16",
                                  !.o[2] = Lit(check[2])])
       ELSE g

optimize_istype(g, b, ins) ==
    LET g1         == MVM_spesh_get_facts(MVM_spesh_get_facts(g, ins.o[2]),
                                          ins.o[3])
        obj_facts  == get_facts_direct(g1, ins.o[2])
        type_facts == get_facts_direct(g1, ins.o[3])
        check      == MVM_6model_try_cache_type_check(obj_facts.type,
                                                      type_facts.type)
    IN IF KNOWN_TYPE \in type_facts.flags /\ KNOWN_TYPE \in obj_facts.flags
       THEN IF check[1] = 0
            THEN g1
            ELSE LET g2 == MVM_spesh_get_facts(g1, ins.o[1])
                     g3 == [AddFlags(g2, ins.o[1], {KNOWN_VALUE})
                               EXCEPT !.facts[ins.o[1].v].value = check[2]]
                     g4 == DecUsages(DecUsages(g3, ins.o[2]), ins.o[3])
                 IN SetIns(g4, b, [ins EXCEPT !.op = "const_i64_16",
                                              !.o[2] = Lit(check[2])])
       ELSE g1

wanted_repr_id(op) ==
    CASE op = "islist" -> "MVMArray"
      [] op = "ishash" -> "MVMHash"
      [] op = "isint"  -> "P6int"
      [] op = "isnum"  -> "P6num"
      [] op = "isstr"  -> "P6str"

optimize_is_reprid(g, b, ins) ==
    LET g1        == MVM_spesh_get_facts(g, ins.o[2])
        obj_facts == get_facts_direct(g1, ins.o[2])
    IN IF KNOWN_TYPE \notin obj_facts.flags
       THEN g1
       ELSE IF REPR(obj_facts.type) # wanted_repr_id(ins.op)
            THEN LET g2 == MVM_spesh_get_facts(g1, ins.o[1])
                     g3 == [AddFlags(g2, ins.o[1], {KNOWN_VALUE})
                               EXCEPT !.facts[ins.o[1].v].value = 0]
                 IN SetIns(g3, b, [ins EXCEPT !.op = "const_i64_16",
                                              !.o[2] = Lit(0)])
            ELSE SetIns(g1, b, [ins EXCEPT !.op = "isnonnull"])

optimize_isconcrete(g, b, ins) ==
    LET g1        == MVM_spesh_get_facts(g, ins.o[2])
        obj_facts == get_facts_direct(g1, ins.o[2])
        result    == IF CONCRETE \in obj_facts.flags THEN 1 ELSE 0
    IN IF obj_facts.flags \cap {CONCRETE, TYPEOBJ} # {}
       THEN LET g2 == MVM_spesh_get_facts(g1, ins.o[1])
                g3 == [AddFlags(g2, ins.o[1], {KNOWN_VALUE})
                          EXCEPT !.facts[ins.o[1].v].value = result]
            IN SetIns(DecUsages(g3, ins.o[2]), b,
                      [ins EXCEPT !.op = "const_i64_16",
                                  !.o[2] = Lit(result)])
       ELSE g1

\* The boolification modes optimize_iffy decides without a call.
DecidableBoolModes ==
    {"UNBOX_INT", "UNBOX_NUM", "UNBOX_STR_NOT_EMPTY",
     "UNBOX_STR_NOT_EMPTY_OR_ZERO", "BIGINT", "ITER", "HAS_ELEMS",
     "NOT_TYPE_OBJECT"}

\* Every branch taken for an if_ form.
negated_op_Never(op) == 0

negated_op(op) == IF op \in {"unless_i", "unless_s", "unless_n", "unless_o"}
                  THEN 1 ELSE 0

\* MVMuint8 truthvalue of optimize_iffy for a known value, or -1 where the
\* function returns without deciding.
truthvalue(op, value) ==
    CASE op \in {"if_i", "unless_i"} -> ToUint8(value)
      [] op \in {"if_o", "unless_o"} ->
            IF Objects[value].bool_mode \in DecidableBoolModes
            THEN ToUint8(MVM_coerce_istrue(value))
            ELSE -1
      [] op \in {"if_n", "unless_n"} -> IF value # 0 THEN 1 ELSE 0
      [] OTHER -> -1

optimize_iffy(g, b, ins) ==
    LET g1         == MVM_spesh_get_facts(g, ins.o[1])
        flag_facts == get_facts_direct(g1, ins.o[1])
        tv         == truthvalue(ins.op, flag_facts.value)
    IN IF KNOWN_VALUE \notin flag_facts.flags
       THEN g1
       ELSE IF tv = -1
            THEN g1
            ELSE LET g2 == DecUsages(g1, ins.o[1])
                 IN IF tv # negated_op(ins.op)
                    THEN MVM_spesh_manipulate_remove_successor(
                             SetIns(g2, b, [ins EXCEPT !.op = "goto",
                                                       !.o[1] = ins.o[2]]),
                             b, g2.bbs[b].linear_next)
                    ELSE MVM_spesh_manipulate_delete_ins(
                             MVM_spesh_manipulate_remove_successor(
                                 g2, b, ins.o[2].v),
                             b, ins.id)

optimize_hllize(g, b, ins) ==
    LET g1        == MVM_spesh_get_facts(g, ins.o[2])
        obj_facts == get_facts_direct(g1, ins.o[2])
    IN IF /\ KNOWN_TYPE \in obj_facts.flags
          /\ obj_facts.type # NULL
          /\ STables[obj_facts.type].hll_owner = CurrentHLL
       THEN copy_facts(SetIns(g1, b, [ins EXCEPT !.op = "set"]),
                       ins.o[1], ins.o[2])
       ELSE g1

optimize_decont(g, b, ins) ==
    LET g1        == MVM_spesh_get_facts(g, ins.o[2])
        obj_facts == get_facts_direct(g1, ins.o[2])
    IN IF obj_facts.flags \cap {DECONTED, TYPEOBJ} # {}
       THEN copy_facts(SetIns(g1, b, [ins EXCEPT !.op = "set"]),
                       ins.o[1], ins.o[2])
       ELSE LET g2 == MVM_spesh_get_facts(g1, ins.o[1])
                g3 == IF KNOWN_DECONT_TYPE \in obj_facts.flags
                      THEN [AddFlags(g2, ins.o[1], {KNOWN_TYPE})
                               EXCEPT !.facts[ins.o[1].v].type =
                                          obj_facts.decont_type]
                      ELSE g2
            IN IF DECONT_CONCRETE \in obj_facts.flags
               THEN AddFlags(g3, ins.o[1], {CONCRETE})
               ELSE IF DECONT_TYPEOBJ \in obj_facts.flags
                    THEN AddFlags(g3, ins.o[1], {TYPEOBJ})
                    ELSE g3

optimize_assertparamcheck(g, b, ins) ==
    LET g1    == MVM_spesh_get_facts(g, ins.o[1])
        facts == get_facts_direct(g1, ins.o[1])
    IN IF KNOWN_VALUE \in facts.flags /\ facts.value # 0
       THEN MVM_spesh_manipulate_delete_ins(DecUsages(g1, ins.o[1]),
                                            b, ins.id)
       ELSE g1

optimize_coerce(g, b, ins) ==
    LET g1     == MVM_spesh_get_facts(g, ins.o[2])
        facts  == get_facts_direct(g1, ins.o[2])
        result == IntToNum(facts.value)
    IN IF KNOWN_VALUE \in facts.flags
       THEN LET g2 == DecUsages(MVM_spesh_get_facts(g1, ins.o[1]), ins.o[2])
                g3 == SetIns(g2, b, [ins EXCEPT !.op = "const_n64",
                                                !.o[2] = Lit(result)])
            IN [AddFlags(g3, ins.o[1], {KNOWN_VALUE})
                   EXCEPT !.facts[ins.o[1].v].value = result]
       ELSE g1

\* optimize_repr_op: the REPRs of the model have no spesh hook, so the
\* facts of the type operand are looked up and nothing is rewritten.
optimize_repr_op(g, b, ins, type_operand) ==
    MVM_spesh_get_facts(g, ins.o[type_operand + 1])

specialized_on_invocant(g) ==
    \E i \in 1..Len(g.arg_guards) : g.arg_guards[i].slot = 0

\* optimize_getlex_known.  The usages-- of the code goes through operand 1,
\* which holds a string index and is read as a register: the facts it
\* reaches are those of any register, or lie outside the facts table, so
\* the rule has one outcome for each.
optimize_getlex_known(g, b, ins) ==
    LET next_id  == NextInsId(g.bbs[b].ins, ins.id)
        next     == InsOf(g, b, next_id)
        log_slot == ToUint16(next.o[2].v * MVM_SPESH_LOG_RUNS)
        log_obj  == g.log_slots[log_slot + 1]
        a        == MVM_spesh_add_spesh_slot(g, log_obj)
        g2       == MVM_spesh_manipulate_delete_ins(a.g, b, next_id)
        Punned   == {g2} \cup
                    { DecUsages(MVM_spesh_get_facts(g2, Reg(r)), Reg(r)) :
                          r \in DOMAIN g.facts }
        Facts(g3) ==
            LET g4 == SetIns(g3, b, [ins EXCEPT !.op = "sp_getspeshslot",
                                                !.o[2] = Lit(a.ss)])
                g5 == MVM_spesh_get_facts(g4, ins.o[1])
                g6 == [AddFlags(g5, ins.o[1], {KNOWN_TYPE, KNOWN_VALUE})
                          EXCEPT !.facts[ins.o[1].v].type  = WHAT(log_obj),
                                 !.facts[ins.o[1].v].value = log_obj]
            IN IF IS_CONCRETE(log_obj)
               THEN IF ~STables[WHAT(log_obj)].container_spec
                    THEN AddFlags(g6, ins.o[1], {CONCRETE, DECONTED})
                    ELSE AddFlags(g6, ins.o[1], {CONCRETE})
               ELSE AddFlags(g6, ins.o[1], {TYPEOBJ})
    IN IF next_id # NULL /\ next.op = "sp_log"
       THEN IF log_obj # NULL
            THEN { Facts(g3) : g3 \in Punned }
            ELSE {g}
       ELSE {g}

(***************************************************************************)
(* MVMSpeshCallInfo.  UNINIT marks a member that has not been written      *)
(* since the variable was declared: reading it gives any value.            *)
(***************************************************************************)
UNINIT == -1

ArgSlots == 1..MAX_ARGS_FOR_OPT

UninitCallInfo ==
    [cs           |-> UNINIT,
     prepargs_ins |-> UNINIT,
     arg_is_const |-> [i \in ArgSlots |-> UNINIT],
     arg_facts    |-> [i \in ArgSlots |-> UNINIT],
     arg_ins      |-> [i \in ArgSlots |-> UNINIT]]

\* A guard that every argument passes.
GuardHolds_Always(guard, facts) == TRUE

\* One guard of a candidate against known facts.
GuardHolds(guard, facts) ==
    CASE guard.kind = "CONC" ->
            /\ CONCRETE \in facts.flags
            /\ KNOWN_TYPE \in facts.flags
            /\ facts.type = guard.match
      [] guard.kind = "TYPE" ->
            /\ TYPEOBJ \in facts.flags
            /\ KNOWN_TYPE \in facts.flags
            /\ facts.type = guard.match
      [] guard.kind = "DC_CONC" ->
            /\ DECONT_CONCRETE \in facts.flags
            /\ KNOWN_DECONT_TYPE \in facts.flags
            /\ facts.decont_type = guard.match
      [] guard.kind = "DC_TYPE" ->
            /\ DECONT_TYPEOBJ \in facts.flags
            /\ KNOWN_DECONT_TYPE \in facts.flags
            /\ facts.decont_type = guard.match
      [] OTHER -> FALSE

\* arg_info->arg_facts[slot] of a guard, NULL for a slot beyond the limit.
GuardFacts(guard, arg_info) ==
    IF guard.slot < MAX_ARGS_FOR_OPT
    THEN arg_info.arg_facts[guard.slot + 1]
    ELSE NULL

\* What a guard can do: pass, fail, or fault on an unwritten pointer.
GuardMayPass(g, guard, arg_info) ==
    LET f == GuardFacts(guard, arg_info)
    IN \/ f = UNINIT
       \/ f \notin {UNINIT, NULL} /\ GuardHolds(guard, g.facts[f])

GuardMayFail(g, guard, arg_info) ==
    LET f == GuardFacts(guard, arg_info)
    IN \/ f \in {UNINIT, NULL}
       \/ f \notin {UNINIT, NULL} /\ ~GuardHolds(guard, g.facts[f])

GuardMayFault(guard, arg_info) == GuardFacts(guard, arg_info) = UNINIT

CandMayMatch(g, cand, arg_info) ==
    /\ arg_info.cs \in {UNINIT, cand.cs}
    /\ \A j \in 1..Len(cand.guards) : GuardMayPass(g, cand.guards[j], arg_info)

CandMayFail(g, cand, arg_info) ==
    \/ arg_info.cs # cand.cs
    \/ \E j \in 1..Len(cand.guards) : GuardMayFail(g, cand.guards[j], arg_info)

CandMayFault(g, cand, arg_info) ==
    /\ arg_info.cs \in {UNINIT, cand.cs}
    /\ \E j \in 1..Len(cand.guards) :
          /\ GuardMayFault(cand.guards[j], arg_info)
          /\ \A k \in 1..(j - 1) : GuardMayPass(g, cand.guards[k], arg_info)

FAULT == -2

\* try_find_spesh_candidate: the results the search can give: the index of
\* the first candidate that matches, -1, or FAULT.  With every member of
\* arg_info written there is exactly one.
try_find_spesh_candidate(g, code, arg_info) ==
    LET cands == SpeshCandidates(code)
        Before(i) == \A j \in 1..(i - 1) : CandMayFail(g, cands[j], arg_info)
    IN { i - 1 : i \in { k \in 1..Len(cands) :
                           CandMayMatch(g, cands[k], arg_info) /\ Before(k) } }
       \cup (IF Before(Len(cands) + 1) THEN {-1} ELSE {})
       \cup (IF \E i \in 1..Len(cands) :
                    CandMayFault(g, cands[i], arg_info) /\ Before(i)
             THEN {FAULT} ELSE {})

\* The call try_find_spesh_candidate(tc, code, arg_info) on its own: the
\* frame of the call holds the code object and, once it has returned, the
\* result.
TryFindSpeshCandidate ==
    /\ opc.phase = "try_find_spesh_candidate"
    /\ \E spesh_cand \in try_find_spesh_candidate(graph, opc.stack[1].code,
                                                   call_info) :
          opc' = [opc EXCEPT !.phase = "returned",
                             !.stack[1].spesh_cand = spesh_cand]
    /\ UNCHANGED <<graph, call_info, seen, graph_prev, graph_in>>
    /\ UNCHANGED <<csvars, hsvars>>

\* The code object optimize_call resolves the callee to, or NULL.
ResolveTarget(code, arg_info) ==
    LET is    == invocation_spec(code)
        found == MVM_multi_cache_find_spesh(Objects[code].md_cache, arg_info)
    IN IF IsCode(code)
       THEN code
       ELSE IF is.has = 0
            THEN NULL
            ELSE IF is.md_class_handle # NULL
                 THEN IF /\ Objects[code].md_valid # 0
                         /\ Objects[code].md_cache # NULL
                         /\ found # NULL
                      THEN IF IsCode(found)
                           THEN found
                           ELSE IF /\ invocation_spec(found).has = 1
                                   /\ invocation_spec(found).class_handle
                                          # NULL
                                   /\ IsCode(get_attribute(found,
                                                 is.class_handle))
                                THEN get_attribute(found, is.class_handle)
                                ELSE NULL
                      ELSE NULL
                 ELSE IF /\ is.class_handle # NULL
                         /\ IsCode(get_attribute(code, is.class_handle))
                      THEN get_attribute(code, is.class_handle)
                      ELSE NULL

\* One fast-invoke op for every kind of invoke.
fastinvoke_op_AlwaysO(op) == "sp_fastinvoke_o"

fastinvoke_op(op) ==
    CASE op = "invoke_v" -> "sp_fastinvoke_v"
      [] op = "invoke_i" -> "sp_fastinvoke_i"
      [] op = "invoke_n" -> "sp_fastinvoke_n"
      [] op = "invoke_s" -> "sp_fastinvoke_s"
      [] op = "invoke_o" -> "sp_fastinvoke_o"

\* optimize_call: the outcomes [g, fault] of the rule.
optimize_call(g, b, ins, callee_idx, arg_info) ==
    LET g1     == MVM_spesh_get_facts(g, ins.o[callee_idx + 1])
        callee_facts == get_facts_direct(g1, ins.o[callee_idx + 1])
        code   == callee_facts.value
        target == ResolveTarget(code, arg_info)
        a      == MVM_spesh_add_spesh_slot(g1, target)
        ss_ins == Ins(g1.next_id, "sp_getspeshslot",
                      <<ins.o[callee_idx + 1], Lit(a.ss)>>)
        g2     == IF /\ target # NULL
                     /\ target # code
                     /\ ~Objects[target].is_compiler_stub
                  THEN MVM_spesh_manipulate_insert_ins(
                           [a.g EXCEPT !.next_id = @ + 1], b,
                           PrevInsId(g1.bbs[b].ins, ins.id), ss_ins)
                  ELSE g1
        Pointed(spesh_cand) ==
            SetIns(g2, b,
                   [ins EXCEPT !.op = fastinvoke_op(ins.op),
                               !.o  = IF ins.op = "invoke_v"
                                      THEN <<ins.o[1], Lit(spesh_cand)>>
                                      ELSE <<ins.o[1], ins.o[2],
                                             Lit(spesh_cand)>>])
    IN IF KNOWN_VALUE \notin callee_facts.flags
       THEN {[g |-> g1, fault |-> FALSE]}
       ELSE IF target = NULL
            THEN {[g |-> g2, fault |-> FALSE]}
            ELSE { [g     |-> IF spesh_cand >= 0 THEN Pointed(spesh_cand)
                              ELSE g2,
                    fault |-> spesh_cand = FAULT] :
                     spesh_cand \in try_find_spesh_candidate(g2, target,
                                                              arg_info) }

(***************************************************************************)
(* optimize_bb: the switch over the opcode of one instruction.  The        *)
(* outcomes are records [g, arg_info, fault].                              *)
(***************************************************************************)
Outcome(g, arg_info) == {[g |-> g, arg_info |-> arg_info, fault |-> FALSE]}

optimize_ins(g, b, ins, arg_info) ==
    LET idx == ins.o[1].v
    IN CASE ins.op = "set" ->
            Outcome(copy_facts(g, ins.o[1], ins.o[2]), arg_info)
         [] ins.op \in {"if_i", "unless_i", "if_n", "unless_n", "if_o",
                        "unless_o"} ->
            Outcome(optimize_iffy(g, b, ins), arg_info)
         [] ins.op = "prepargs" ->
            Outcome(g, [arg_info EXCEPT !.cs = CuCallsites[idx + 1],
                                        !.prepargs_ins = ins.id])
         [] ins.op \in {"arg_i", "arg_n", "arg_s", "arg_o"} ->
            IF idx < MAX_ARGS_FOR_OPT
            THEN Outcome(MVM_spesh_get_facts(g, ins.o[2]),
                         [arg_info EXCEPT !.arg_is_const[idx + 1] = 0,
                                          !.arg_facts[idx + 1] = ins.o[2].v,
                                          !.arg_ins[idx + 1] = ins.id])
            ELSE Outcome(g, arg_info)
         [] ins.op \in {"argconst_i", "argconst_n", "argconst_s"} ->
            IF idx < MAX_ARGS_FOR_OPT
            THEN Outcome(g, [arg_info EXCEPT !.arg_is_const[idx + 1] = 1,
                                             !.arg_ins[idx + 1] = ins.id])
            ELSE Outcome(g, arg_info)
         [] ins.op = "coerce_in" ->
            Outcome(optimize_coerce(g, b, ins), arg_info)
         [] ins.op = "invoke_v" ->
            { [g |-> r.g, arg_info |-> arg_info, fault |-> r.fault] :
                  r \in optimize_call(g, b, ins, 0, arg_info) }
         [] ins.op \in {"invoke_i", "invoke_n", "invoke_s", "invoke_o"} ->
            { [g |-> r.g, arg_info |-> arg_info, fault |-> r.fault] :
                  r \in optimize_call(g, b, ins, 1, arg_info) }
         [] ins.op \in {"islist", "ishash", "isint", "isnum", "isstr"} ->
            Outcome(optimize_is_reprid(g, b, ins), arg_info)
         [] ins.op = "findmeth" ->
            Outcome(optimize_method_lookup(g, b, ins), arg_info)
         [] ins.op \in {"can", "can_s"} ->
            Outcome(g, arg_info)
         [] ins.op \in {"create", "getattr_o", "unbox_i", "elems"} ->
            Outcome(optimize_repr_op(g, b, ins, 1), arg_info)
         [] ins.op = "bindattr_o" ->
            Outcome(optimize_repr_op(g, b, ins, 0), arg_info)
         [] ins.op = "box_i" ->
            Outcome(optimize_repr_op(g, b, ins, 2), arg_info)
         [] ins.op = "isconcrete" ->
            Outcome(optimize_isconcrete(g, b, ins), arg_info)
         [] ins.op = "istype" ->
            Outcome(optimize_istype(g, b, ins), arg_info)
         [] ins.op = "hllize" ->
            Outcome(optimize_hllize(g, b, ins), arg_info)
         [] ins.op = "decont" ->
            Outcome(optimize_decont(g, b, ins), arg_info)
         [] ins.op = "assertparamcheck" ->
            Outcome(optimize_assertparamcheck(g, b, ins), arg_info)
         [] ins.op = "getlexstatic_o" ->
            { [g |-> g2, arg_info |-> arg_info, fault |-> FALSE] :
                  g2 \in optimize_getlex_known(g, b, ins) }
         [] ins.op = "getlexperinvtype_o" ->
            IF specialized_on_invocant(g)
            THEN { [g |-> g2, arg_info |-> arg_info, fault |-> FALSE] :
                       g2 \in optimize_getlex_known(g, b, ins) }
            ELSE Outcome(g, arg_info)
         [] ins.op \in {"sp_log", "sp_osrfinalize"} ->
            Outcome(MVM_spesh_manipulate_delete_ins(g, b, ins.id), arg_info)
         [] OTHER ->
            Outcome(g, arg_info)

\* ins = ins->next after the switch: a deleted instruction still points at
\* the instruction that followed it.
ins_next(g_before, g_after, b, id) ==
    IF HasIns(g_after.bbs[b].ins, id)
    THEN NextInsId(g_after.bbs[b].ins, id)
    ELSE NextInsId(g_before.bbs[b].ins, id)

first_ins(g, b) == IF Len(g.bbs[b].ins) > 0 THEN g.bbs[b].ins[1].id ELSE NULL

(***************************************************************************)
(* eliminate_dead_ins: one sweep of the outer loop over all blocks in      *)
(* linear order, the instructions of each from the last to the first.      *)
(***************************************************************************)
RECURSIVE LinearFrom(_, _)
LinearFrom(g, b) ==
    IF b = NULL THEN <<>>
    ELSE <<b>> \o LinearFrom(g, g.bbs[b].linear_next)

\* The blocks on the linear_next chain of the entry, and as a set.
LinearOrder(g) == LinearFrom(g, g.entry)

OnList(g) == { LinearOrder(g)[i] : i \in 1..Len(LinearOrder(g)) }

\* A deletion that leaves the counters of the operands alone.
propagate_non_usage_Skip(g, ins, i) == g

\* "Propagate non-usage": operands from position i on.
RECURSIVE propagate_non_usage(_, _, _)
propagate_non_usage(g, ins, i) ==
    IF i > Len(InsOperands(ins))
    THEN g
    ELSE IF InsOperands(ins)[i] = "r"
         THEN propagate_non_usage(
                  DecUsages(MVM_spesh_get_facts(g, ins.o[i]), ins.o[i]),
                  ins, i + 1)
         ELSE propagate_non_usage(g, ins, i + 1)

\* The instructions of block b from index i down to the first.
RECURSIVE sweep_ins(_, _, _, _)
sweep_ins(g, b, i, death) ==
    IF i = 0
    THEN [g |-> g, death |-> death]
    ELSE LET ins == g.bbs[b].ins[i]
             g1  == MVM_spesh_get_facts(g, ins.o[1])
         IN IF /\ \/ ins.op = "PHI"
                  \/ OpPure(ins.op) /\ InsOperands(ins)[1] = "w"
            THEN IF get_facts_direct(g1, ins.o[1]).usages = 0
                 THEN sweep_ins(MVM_spesh_manipulate_delete_ins(
                                    propagate_non_usage(g1, ins, 2),
                                    b, ins.id),
                                b, i - 1, 1)
                 ELSE sweep_ins(g1, b, i - 1, death)
            ELSE sweep_ins(g, b, i - 1, death)

RECURSIVE sweep_bbs(_, _, _)
sweep_bbs(g, b, death) ==
    IF b = NULL
    THEN [g |-> g, death |-> death]
    ELSE LET r == sweep_ins(g, b, Len(g.bbs[b].ins), death)
         IN sweep_bbs(r.g, g.bbs[b].linear_next, r.death)

(***************************************************************************)
(* eliminate_dead_bbs: one iteration of the outer loop.  seen maps a block *)
(* index to 0 or 1 and lives as long as the function runs.                 *)
(***************************************************************************)
\* First pass: memset of the first num_bbs bytes, then the marks.
mark_seen(g, marks) ==
    LET Marked == {0} \cup
                  UNION { { g.bbs[g.bbs[b].succ[i]].idx :
                              i \in 1..Len(g.bbs[b].succ) } :
                          b \in OnList(g) }
    IN [i \in DOMAIN marks |->
           IF i \in Marked THEN 1
           ELSE IF i < g.num_bbs THEN 0 ELSE marks[i]]

\* if (!cur_bb->linear_next->inlined)
keeps_inlined_DropCheck(bb) == FALSE

keeps_inlined(bb) == bb.inlined # 0

\* Second pass from cur_bb on: [g, death, fault]; fault when the loop
\* condition reads linear_next of a NULL cur_bb.
RECURSIVE remove_unseen(_, _, _, _)
remove_unseen(g, marks, cur_bb, death) ==
    LET next == g.bbs[cur_bb].linear_next
        dead == marks[g.bbs[next].idx] = 0 /\ ~keeps_inlined(g.bbs[next])
        g1   == IF dead
                THEN [g EXCEPT !.bbs[cur_bb].linear_next =
                                   g.bbs[next].linear_next,
                               !.num_bbs = @ - 1]
                ELSE g
        d1   == IF dead THEN 1 ELSE death
        cur1 == g1.bbs[cur_bb].linear_next
    IN IF next = NULL
       THEN [g |-> g, death |-> death, fault |-> FALSE]
       ELSE IF cur1 = NULL
            THEN [g |-> g1, death |-> d1, fault |-> TRUE]
            ELSE remove_unseen(g1, marks, cur1, d1)

\* The renumbering after the loop.
renumber(g) ==
    LET order == LinearOrder(g)
    IN [g EXCEPT !.bbs =
           [b \in DOMAIN g.bbs |->
               IF b \in OnList(g)
               THEN [g.bbs[b] EXCEPT !.idx =
                        (CHOOSE i \in 1..Len(order) : order[i] = b) - 1]
               ELSE g.bbs[b]]]

(***************************************************************************)
(* eliminate_unused_log_guards                                             *)
(***************************************************************************)
RECURSIVE delete_unused_guards(_, _)
delete_unused_guards(g, i) ==
    IF i > Len(g.log_guards)
    THEN g
    ELSE IF g.log_guards[i].used = 0
         THEN delete_unused_guards(
                  MVM_spesh_manipulate_delete_ins(g, g.log_guards[i].bb,
                                                  g.log_guards[i].ins),
                  i + 1)
         ELSE delete_unused_guards(g, i + 1)

(***************************************************************************)
(* MVM_spesh_optimize as steps.  opc.phase names the call that is running, *)
(* opc.bb and opc.ins the block and instruction optimize_bb is at, and     *)
(* opc.stack the optimize_bb calls that wait for a child to return.        *)
(***************************************************************************)
\* A running optimize_bb call: its block, the child it visits next
\* (counted from 1) and, while it waits for a child, its arg_info.
Frame(bb, child, arg_info) ==
    [bb |-> bb, child |-> child, arg_info |-> arg_info]

\* The call optimize_bb(tc, g, g->entry) that starts a run.
EnterOptimize(g, run) ==
    [phase |-> "optimize_bb", run |-> run, bb |-> g.entry,
     ins |-> first_ins(g, g.entry),
     stack |-> <<Frame(g.entry, 1, UninitCallInfo)>>, orig_bbs |-> 0]

\* One turn of the while loop of optimize_bb.
OptimizeIns ==
    /\ opc.phase = "optimize_bb"
    /\ opc.ins # NULL
    /\ \E r \in optimize_ins(graph, opc.bb, InsOf(graph, opc.bb, opc.ins),
                             call_info) :
          /\ graph' = r.g
          /\ call_info' = r.arg_info
          /\ opc' = IF r.fault
                    THEN [opc EXCEPT !.phase = "fault"]
                    ELSE [opc EXCEPT !.ins = ins_next(graph, r.g, opc.bb,
                                                      opc.ins)]
    /\ UNCHANGED <<seen, graph_prev, graph_in>>
    /\ UNCHANGED <<csvars, hsvars>>

\* for (i = 0; i < bb->num_children; i++) optimize_bb(..., bb->children[i])
VisitChild ==
    /\ opc.phase = "optimize_bb"
    /\ opc.ins = NULL
    /\ LET top   == opc.stack[Len(opc.stack)]
           child == graph.bbs[opc.bb].children[top.child]
       IN /\ top.child <= Len(graph.bbs[opc.bb].children)
          /\ opc' = [opc EXCEPT
                        !.stack = Append(
                            [@ EXCEPT ![Len(@)] =
                                 Frame(opc.bb, top.child + 1, call_info)],
                            Frame(child, 1, UninitCallInfo)),
                        !.bb    = child,
                        !.ins   = first_ins(graph, child)]
    /\ call_info' = UninitCallInfo
    /\ UNCHANGED <<graph, seen, graph_prev, graph_in>>
    /\ UNCHANGED <<csvars, hsvars>>

\* optimize_bb returns, to the optimize_bb of the parent block or to
\* MVM_spesh_optimize.
ReturnFromBB ==
    /\ opc.phase = "optimize_bb"
    /\ opc.ins = NULL
    /\ LET top  == opc.stack[Len(opc.stack)]
           rest == SubSeq(opc.stack, 1, Len(opc.stack) - 1)
       IN /\ top.child > Len(graph.bbs[opc.bb].children)
          /\ IF rest = <<>>
             THEN /\ opc' = [opc EXCEPT !.phase = "eliminate_dead_ins",
                                        !.stack = <<>>]
                  /\ call_info' = UninitCallInfo
             ELSE /\ opc' = [opc EXCEPT !.stack = rest,
                                        !.bb = rest[Len(rest)].bb]
                  /\ call_info' = rest[Len(rest)].arg_info
    /\ UNCHANGED <<graph, seen, graph_prev, graph_in>>
    /\ UNCHANGED <<csvars, hsvars>>

\* One turn of the while (death) loop of eliminate_dead_ins; after the
\* last one eliminate_dead_bbs is entered and allocates seen.
EliminateDeadIns ==
    /\ opc.phase = "eliminate_dead_ins"
    /\ LET r == sweep_bbs(graph, graph.entry, 0)
       IN /\ graph' = r.g
          /\ IF r.death = 1
             THEN UNCHANGED <<opc, seen>>
             ELSE /\ opc' = [opc EXCEPT !.phase = "eliminate_dead_bbs",
                                        !.orig_bbs = graph.num_bbs]
                  /\ seen' = [i \in 0..(graph.num_bbs - 1) |-> UNINIT]
    /\ UNCHANGED <<call_info, graph_prev, graph_in>>
    /\ UNCHANGED <<csvars, hsvars>>

\* One turn of the while (death) loop of eliminate_dead_bbs.
EliminateDeadBBs ==
    /\ opc.phase = "eliminate_dead_bbs"
    /\ LET marks == mark_seen(graph, seen)
           r     == remove_unseen(graph, marks, graph.entry, 0)
       IN /\ seen' = marks
          /\ graph' = r.g
          /\ opc' = IF r.fault
                    THEN [opc EXCEPT !.phase = "fault"]
                    ELSE IF r.death = 1
                         THEN opc
                         ELSE [opc EXCEPT !.phase = "renumber"]
    /\ UNCHANGED <<call_info, graph_prev, graph_in>>
    /\ UNCHANGED <<csvars, hsvars>>

\* free(seen) and the renumbering at the end of eliminate_dead_bbs.
RenumberBBs ==
    /\ opc.phase = "renumber"
    /\ graph' = IF graph.num_bbs # opc.orig_bbs THEN renumber(graph)
                ELSE graph
    /\ seen' = <<>>
    /\ opc' = [opc EXCEPT !.phase = "eliminate_unused_log_guards"]
    /\ UNCHANGED <<call_info, graph_prev, graph_in>>
    /\ UNCHANGED <<csvars, hsvars>>

EliminateUnusedLogGuards ==
    /\ opc.phase = "eliminate_unused_log_guards"
    /\ graph' = delete_unused_guards(graph, 1)
    /\ opc' = [opc EXCEPT !.phase = "done"]
    /\ UNCHANGED <<call_info, seen, graph_prev, graph_in>>
    /\ UNCHANGED <<csvars, hsvars>>

\* MVM_spesh_optimize is called again on the graph it has produced.
OptimizeAgain ==
    /\ opc.phase = "done"
    /\ opc.run < NumRuns
    /\ graph_prev' = graph
    /\ opc' = EnterOptimize(graph, opc.run + 1)
    /\ call_info' = UninitCallInfo
    /\ UNCHANGED <<graph, seen, graph_in>>
    /\ UNCHANGED <<csvars, hsvars>>

(***************************************************************************)
(* The graphs the optimizer is run on.  The entry block holds up to        *)
(* MaxSnippets instruction groups, each over registers of its own, and may *)
(* end in a conditional branch:                                            *)
(*      block 1 (entry)   groups, [branch to block 3]                      *)
(*      block 2           goto block 4                                     *)
(*      block 3           falls through                                    *)
(*      block 4           PHI-free exit                                    *)
(* Block 3 has no predecessor when block 1 does not branch.  Facts are     *)
(* given for the registers the groups read, and the usages of every        *)
(* register count the instructions that read it.                           *)
(***************************************************************************)
NoFacts == [flags |-> {}, type |-> NULL, decont_type |-> NULL, value |-> 0]

KnownType(type)  == [NoFacts EXCEPT !.flags = {KNOWN_TYPE}, !.type = type]
KnownValue(v)    == [NoFacts EXCEPT !.flags = {KNOWN_VALUE}, !.value = v]
ConcType(type)   == [NoFacts EXCEPT !.flags = {KNOWN_TYPE, CONCRETE},
                                    !.type = type]
TypeObjType(type) == [NoFacts EXCEPT !.flags = {KNOWN_TYPE, TYPEOBJ},
                                     !.type = type]
DecontType(type) == [NoFacts EXCEPT
                        !.flags = {KNOWN_DECONT_TYPE, DECONT_CONCRETE},
                        !.decont_type = type]
JustFlags(flags) == [NoFacts EXCEPT !.flags = flags]

\* A group: its kind, the facts of its first and second source register, a
\* number that selects a variation, and whether its result is read by a
\* following instruction.
Snippet(kind, a, b, n, use) ==
    [kind |-> kind, a |-> a, b |-> b, n |-> n, use |-> use]

Snippets ==
    { Snippet(k, f, NoFacts, 0, u) :
          k \in {"islist", "isint"},
          f \in {NoFacts, KnownType(1), KnownType(2), KnownType(5)},
          u \in 0..1 }
    \cup
    { Snippet("isconcrete", f, NoFacts, 0, u) :
          f \in {NoFacts, JustFlags({CONCRETE}), JustFlags({TYPEOBJ})},
          u \in 0..1 }
    \cup
    { Snippet("istype", f, KnownType(1), 0, u) :
          f \in {NoFacts, KnownType(1), KnownType(2), KnownType(5)},
          u \in 0..1 }
    \cup
    { Snippet("istype", KnownType(1), NoFacts, 0, u) : u \in 0..1 }
    \cup
    { Snippet("findmeth", f, NoFacts, n, 1) :
          f \in {NoFacts, KnownType(1), KnownType(2)}, n \in 0..1 }
    \cup
    { Snippet("coerce_in", f, NoFacts, 0, u) :
          f \in {NoFacts, KnownValue(7)}, u \in 0..1 }
    \cup
    { Snippet(k, f, NoFacts, 0, 1) :
          k \in {"hllize", "create", "can", "set"},
          f \in {NoFacts, KnownType(1), KnownType(2)} }
    \cup
    { Snippet("decont", f, NoFacts, 0, 1) :
          f \in {NoFacts, JustFlags({DECONTED}), JustFlags({TYPEOBJ}),
                 DecontType(1)} }
    \cup
    { Snippet("assertparamcheck", f, NoFacts, 0, 0) :
          f \in {NoFacts, KnownValue(0), KnownValue(1)} }
    \cup
    { Snippet(k, NoFacts, NoFacts, n, u) :
          k \in {"getlexstatic_o", "getlexperinvtype_o",
                 "getlexperinvtype_o_spec"},
          n \in 0..3, u \in 0..1 }
    \cup
    { Snippet(k, NoFacts, NoFacts, 0, 0) : k \in {"sp_log", "sp_osrfinalize"} }
    \cup
    { Snippet("invoke_o", a, KnownValue(code), 0, 1) :
          a \in {NoFacts, ConcType(1), TypeObjType(1)},
          code \in {1, 3, 4, 11, 12, 14} }
    \cup
    { Snippet("invoke_o", a, NoFacts, 0, 1) : a \in {NoFacts, ConcType(1)} }
    \cup
    { Snippet(k, a, KnownValue(1), 0, 1) :
          k \in {"invoke_i", "invoke_n", "invoke_s"},
          a \in {NoFacts, ConcType(1)} }
    \cup
    { Snippet("invoke_v", ConcType(1), f, 0, 0) :
          f \in {NoFacts, KnownValue(1), KnownValue(2)} }
    \cup
    { Snippet("invoke_twice", a, KnownValue(1), 0, 1) :
          a \in {NoFacts, ConcType(1)} }
    \cup
    { Snippet("guard", NoFacts, NoFacts, n, 1) : n \in 0..2 }

\* The branch that ends the entry block: none, or an op on a register of
\* its own with the given facts, or (own = 0) on the result of the last
\* group.
Branch(op, f, own) == [op |-> op, f |-> f, own |-> own]

Branches ==
    {Branch("none", NoFacts, 1)}
    \cup
    { Branch(op, f, 1) :
          op \in {"if_i", "unless_i"},
          f \in {NoFacts, KnownValue(0), KnownValue(1), KnownValue(2),
                 KnownValue(256)} }
    \cup
    { Branch(op, KnownValue(obj), 1) :
          op \in {"if_o", "unless_o"}, obj \in {5, 6, 7, 8} }
    \cup
    { Branch("if_n", KnownValue(v), 1) : v \in {0, 3} }
    \cup
    { Branch(op, NoFacts, 0) : op \in {"if_i", "unless_i"} }

NumRegs == 3 * MaxSnippets + 1

\* Register k (1..3) and instruction k of the group at position p.
SnReg(p, k) == Reg(3 * (p - 1) + k)

SnId(p, k) == 10 * p + k

HasDest(sn) ==
    /\ sn.kind \notin {"assertparamcheck", "sp_log", "sp_osrfinalize",
                       "invoke_v"}
    /\ sn.kind = "guard" => sn.n # 1

\* The number of "guard" groups before position p: the index of the log
\* guard of a guard group at p.
RECURSIVE GuardsBefore(_, _)
GuardsBefore(sns, p) ==
    IF p <= 1 THEN 0
    ELSE GuardsBefore(sns, p - 1) +
         (IF sns[p - 1].kind = "guard" THEN 1 ELSE 0)

SnippetIns(sn, p) ==
    LET r1 == SnReg(p, 1)
        r2 == SnReg(p, 2)
        r3 == SnReg(p, 3)
        call == <<Ins(SnId(p, 1), "prepargs", <<CsIdx(0)>>),
                  Ins(SnId(p, 2), "arg_o", <<Lit(0), r1>>)>>
        body ==
          CASE sn.kind \in {"islist", "isint", "isconcrete", "coerce_in",
                            "hllize", "create", "set", "decont"} ->
                 <<Ins(SnId(p, 1), sn.kind, <<r3, r1>>)>>
            [] sn.kind = "can" ->
                 <<Ins(SnId(p, 1), "can", <<r3, r1, StrIdx(0)>>)>>
            [] sn.kind = "istype" ->
                 <<Ins(SnId(p, 1), "istype", <<r3, r1, r2>>)>>
            [] sn.kind = "findmeth" ->
                 <<Ins(SnId(p, 1), "findmeth", <<r3, r1, StrIdx(sn.n)>>)>>
            [] sn.kind = "assertparamcheck" ->
                 <<Ins(SnId(p, 1), "assertparamcheck", <<r1>>)>>
            [] sn.kind \in {"getlexstatic_o", "getlexperinvtype_o",
                            "getlexperinvtype_o_spec"} ->
                 <<Ins(SnId(p, 1),
                       IF sn.kind = "getlexstatic_o" THEN "getlexstatic_o"
                       ELSE "getlexperinvtype_o",
                       <<r3, StrIdx(0)>>)>> \o
                 (IF sn.n = 3 THEN <<>>
                  ELSE <<Ins(SnId(p, 2), "sp_log", <<r3, Lit(sn.n)>>)>>)
            [] sn.kind = "sp_log" ->
                 <<Ins(SnId(p, 1), "sp_log", <<r1, Lit(0)>>)>>
            [] sn.kind = "sp_osrfinalize" ->
                 <<Ins(SnId(p, 1), "sp_osrfinalize", <<>>)>>
            [] sn.kind \in {"invoke_i", "invoke_n", "invoke_s", "invoke_o"} ->
                 call \o <<Ins(SnId(p, 3), sn.kind, <<r3, r2>>)>>
            [] sn.kind = "invoke_v" ->
                 call \o <<Ins(SnId(p, 3), "invoke_v", <<r2>>)>>
            [] sn.kind = "invoke_twice" ->
                 call \o <<Ins(SnId(p, 3), "invoke_v", <<r2>>),
                           Ins(SnId(p, 5), "prepargs", <<CsIdx(0)>>),
                           Ins(SnId(p, 6), "invoke_o", <<r3, r2>>)>>
            [] sn.kind = "guard" ->
                 <<Ins(SnId(p, 1), "sp_guardconc", <<r1, Lit(0)>>),
                   CASE sn.n = 0 -> Ins(SnId(p, 2), "islist", <<r3, r1>>)
                     [] sn.n = 1 -> Ins(SnId(p, 2), "say", <<r1>>)
                     [] OTHER -> Ins(SnId(p, 2), "istype", <<r3, r1, r2>>)>>
    IN body \o (IF sn.use = 1 /\ HasDest(sn)
                THEN <<Ins(SnId(p, 4), "say", <<r3>>)>>
                ELSE <<>>)

\* The facts the graph starts with for register k of the group at p.
SnippetFacts(sns, p, k) ==
    LET sn == sns[p]
    IN IF sn.kind = "guard" /\ k = 1
       THEN [flags |-> {FROM_LOG_GUARD, KNOWN_TYPE, CONCRETE}, type |-> 2,
             decont_type |-> NULL, value |-> 0,
             log_guard |-> GuardsBefore(sns, p), usages |-> 0]
       ELSE LET f == CASE k = 1 -> sn.a [] k = 2 -> sn.b [] OTHER -> NoFacts
            IN [flags |-> f.flags, type |-> f.type,
                decont_type |-> f.decont_type, value |-> f.value,
                log_guard |-> 0, usages |-> 0]

RECURSIVE AllSnippetIns(_, _)
AllSnippetIns(sns, p) ==
    IF p > Len(sns) THEN <<>>
    ELSE SnippetIns(sns[p], p) \o AllSnippetIns(sns, p + 1)

RECURSIVE LogGuardsOf(_, _)
LogGuardsOf(sns, p) ==
    IF p > Len(sns) THEN <<>>
    ELSE (IF sns[p].kind = "guard"
          THEN <<[ins |-> SnId(p, 1), bb |-> 1, used |-> 0]>>
          ELSE <<>>) \o LogGuardsOf(sns, p + 1)

\* The operand positions of the instructions of the given blocks.
OperandPositions(bbs, blocks) ==
    UNION { UNION { { <<b, i, j>> : j \in 1..Len(InsOperands(bbs[b].ins[i])) } :
                        i \in 1..Len(bbs[b].ins) } :
                b \in blocks }

\* The positions at which register r is read.
Reads(bbs, blocks, r) ==
    { x \in OperandPositions(bbs, blocks) :
        /\ InsOperands(bbs[x[1]].ins[x[2]])[x[3]] = "r"
        /\ bbs[x[1]].ins[x[2]].o[x[3]] = Reg(r) }

BB(ins, succ, children, linear_next, idx, inlined) ==
    [ins |-> ins, succ |-> succ, children |-> children,
     linear_next |-> linear_next, idx |-> idx, inlined |-> inlined]

\* g->log_slots: the first run of log slot 0 saw object 5, that of slot 1
\* nothing, that of slot 2 the type object 8.
LogSlots ==
    [i \in 1..(3 * MVM_SPESH_LOG_RUNS) |->
        CASE i = 1 -> 5
          [] i = 2 * MVM_SPESH_LOG_RUNS + 1 -> 8
          [] OTHER -> NULL]

BuildGraph(sns, br) ==
    LET branch_reg == IF br.own = 1 THEN Reg(NumRegs)
                      ELSE SnReg(Len(sns), 3)
        branch == IF br.op = "none" THEN <<>>
                  ELSE <<Ins(1, br.op, <<branch_reg, BBRef(3)>>)>>
        bbs == <<BB(AllSnippetIns(sns, 1) \o branch,
                    IF br.op = "none" THEN <<2>> ELSE <<3, 2>>,
                    IF br.op = "none" THEN <<2>> ELSE <<2, 3, 4>>,
                    2, 0, 0),
                 BB(<<Ins(2, "goto", <<BBRef(4)>>)>>, <<4>>,
                    IF br.op = "none" THEN <<4>> ELSE <<>>, 3, 1, 0),
                 BB(<<>>, <<4>>, <<>>, 4, 2, 0),
                 BB(<<>>, <<>>, <<>>, NULL, 3, 0)>>
        base(r) == IF r = NumRegs
                   THEN [flags |-> br.f.flags, type |-> br.f.type,
                         decont_type |-> br.f.decont_type,
                         value |-> br.f.value, log_guard |-> 0, usages |-> 0]
                   ELSE IF (r - 1) \div 3 < Len(sns)
                        THEN SnippetFacts(sns, ((r - 1) \div 3) + 1,
                                          ((r - 1) % 3) + 1)
                        ELSE [flags |-> {}, type |-> NULL,
                              decont_type |-> NULL, value |-> 0,
                              log_guard |-> 0, usages |-> 0]
    IN [bbs    |-> bbs,
        entry  |-> 1,
        num_bbs |-> 4,
        facts  |-> [r \in 1..NumRegs |->
                      [base(r) EXCEPT
                          !.usages = Cardinality(Reads(bbs, 1..4, r))]],
        spesh_slots |-> <<>>,
        alloc_spesh_slots |-> 0,
        log_guards |-> LogGuardsOf(sns, 1),
        log_slots |-> LogSlots,
        arg_guards |-> IF \E p \in 1..Len(sns) :
                              sns[p].kind = "getlexperinvtype_o_spec"
                       THEN <<[slot |-> 0]>> ELSE <<>>,
        next_id |-> 10 * (MaxSnippets + 1) + 1]

(***************************************************************************)
(* eliminate_dead_ins as a whole, and the body of its innermost loop for   *)
(* one instruction.                                                        *)
(***************************************************************************)
\* The while (death) loop run to its end.
RECURSIVE eliminate_dead_ins(_)
eliminate_dead_ins(g) ==
    LET r == sweep_bbs(g, g.entry, 0)
    IN IF r.death = 1 THEN eliminate_dead_ins(r.g) ELSE r.g

\* The body of while (ins) for instruction i of block b: [g, death].
visit_dead_ins(g, b, i) ==
    LET ins == g.bbs[b].ins[i]
        g1  == MVM_spesh_get_facts(g, ins.o[1])
    IN IF \/ ins.op = "PHI"
          \/ OpPure(ins.op) /\ InsOperands(ins)[1] = "w"
       THEN IF get_facts_direct(g1, ins.o[1]).usages = 0
            THEN [g |-> MVM_spesh_manipulate_delete_ins(
                            propagate_non_usage(g1, ins, 2), b, ins.id),
                  death |-> 1]
            ELSE [g |-> g1, death |-> 0]
       ELSE [g |-> g, death |-> 0]

\* The loop body applied to any instruction that it deletes: the visits of
\* eliminate_dead_ins in an order other than that of the code.
EliminateDeadInsAnyOrder ==
    /\ opc.phase = "eliminate_dead_ins_any_order"
    /\ \E b \in OnList(graph) :
          \E i \in 1..Len(graph.bbs[b].ins) :
             /\ visit_dead_ins(graph, b, i).death = 1
             /\ graph' = visit_dead_ins(graph, b, i).g
    /\ UNCHANGED <<opc, call_info, seen, graph_prev, graph_in>>
    /\ UNCHANGED <<csvars, hsvars>>

(***************************************************************************)
(* The graphs eliminate_dead_ins is run on: a short program over four      *)
(* registers, laid out over two blocks.  optimize_bb hands over graphs in  *)
(* which a usages counter is off by one (optimize_is_reprid,               *)
(* optimize_getlex_known), so one counter may start one above or one below *)
(* the number of reads.                                                    *)
(***************************************************************************)
DeadInsPrograms ==
    LET const(id, r) == Ins(id, "const_i64_16", <<Reg(r), Lit(5)>>)
        set(id, r, s) == Ins(id, "set", <<Reg(r), Reg(s)>>)
        say(id, r)    == Ins(id, "say", <<Reg(r)>>)
    IN { <<const(1, 1), set(2, 2, 1), set(3, 3, 2)>>,
         <<const(1, 1), set(2, 2, 1), set(3, 3, 2), say(4, 3)>>,
         <<const(1, 1), set(2, 2, 1), set(3, 3, 1)>>,
         <<const(1, 1), set(2, 2, 1), set(3, 3, 1), say(4, 2)>>,
         <<const(1, 1), const(2, 2), Ins(3, "PHI", <<Reg(3), Reg(1), Reg(2)>>)>>,
         <<const(1, 1), const(2, 2), Ins(3, "PHI", <<Reg(3), Reg(1), Reg(2)>>),
           say(4, 3)>>,
         <<const(1, 1), Ins(2, "invoke_o", <<Reg(2), Reg(1)>>), set(3, 3, 2)>>,
         <<const(1, 1), say(2, 1), set(3, 3, 1), set(4, 4, 3)>> }

DeadInsRegs == 1..4

\* The program with its first k instructions in block 1 and the rest in
\* block 2; register off (none when 0) has its counter delta away from its
\* number of reads.
DeadInsGraph(prog, k, off, delta) ==
    LET bbs == <<BB(SubSeq(prog, 1, k), <<2>>, <<2>>, 2, 0, 0),
                 BB(SubSeq(prog, k + 1, Len(prog)), <<>>, <<>>, NULL, 1, 0)>>
    IN [bbs    |-> bbs,
        entry  |-> 1,
        num_bbs |-> 2,
        facts  |-> [r \in DeadInsRegs |->
                      [flags |-> {}, type |-> NULL, decont_type |-> NULL,
                       value |-> 0, log_guard |-> 0,
                       usages |-> Cardinality(Reads(bbs, 1..2, r)) +
                                  (IF r = off THEN delta ELSE 0)]],
        spesh_slots |-> <<>>,
        alloc_spesh_slots |-> 0,
        log_guards |-> <<>>,
        log_slots |-> LogSlots,
        arg_guards |-> <<>>,
        next_id |-> 10]

(***************************************************************************)
(* Part III.  The heap snapshot profiler (src/profiler/heapsnapshot.c).    *)
(* An array of the code is a sequence as long as its allocation; element i *)
(* of the code is element i + 1 here.                                      *)
(***************************************************************************)
\* Zeroed memory of each element type; "ZERO" is the kind whose number is 0
\* and "" the null string pointer.
ZeroCollectable == [kind |-> "ZERO", refs_start |-> 0, num_refs |-> 0]

ZeroReference ==
    [description |-> [index |-> 0, kind |-> "ZERO"], collectable_index |-> 0]

ZeroWorkItem == [kind |-> "ZERO", col_idx |-> 0, target |-> NULL]

ZeroString == ""

\* tc->instance->heap_snapshots is a pointer: the empty sequence is NULL,
\* and a sequence of one collection points to that collection.
NoCollection == <<>>

ZeroSnapshot ==
    [collectables |-> <<>>, num_collectables |-> 0, alloc_collectables |-> 0,
     references   |-> <<>>, num_references   |-> 0, alloc_references   |-> 0]

\* MVM_calloc(1, sizeof(MVMHeapSnapshotCollection))
ZeroCollection ==
    [snapshots    |-> <<>>, num_snapshots    |-> 0, alloc_snapshots    |-> 0,
     strings      |-> <<>>, num_strings      |-> 0, alloc_strings      |-> 0,
     strings_free |-> <<>>, num_strings_free |-> 0, alloc_strings_free |-> 0]

\* memset(&ss, 0, sizeof(MVMHeapSnapshotState))
ZeroState ==
    [workitems |-> <<>>, num_workitems |-> 0, alloc_workitems |-> 0,
     ref_from  |-> 0]

\* grow_storage: the store and its allocation after the call; the
\* extension is zeroed.
grow_storage(store, num, alloc, zero) ==
    IF num = alloc
    THEN LET alloc2 == IF alloc # 0 THEN 2 * alloc ELSE 32
         IN [store |-> SubSeq(store, 1, num) \o
                       [i \in 1..(alloc2 - num) |-> zero],
             alloc |-> alloc2]
    ELSE [store |-> store, alloc |-> alloc]

\* get_string_index: the collection after the call and the index.
get_string_index(col, str, is_const) ==
    LET Found == { i \in 1..col.num_strings : col.strings[i] = str }
        s  == grow_storage(col.strings, col.num_strings, col.alloc_strings,
                           ZeroString)
        f  == grow_storage(col.strings_free, col.num_strings_free,
                           col.alloc_strings_free, 0)
    IN IF Found # {}
       THEN [col |-> col,
             idx |-> (CHOOSE i \in Found : \A j \in Found : i <= j) - 1]
       ELSE [col |-> [col EXCEPT
                        !.strings = [s.store EXCEPT
                                        ![col.num_strings + 1] = str],
                        !.alloc_strings = s.alloc,
                        !.strings_free = [f.store EXCEPT
                                             ![col.num_strings + 1] =
                                                 IF is_const = 1 THEN 0
                                                 ELSE 1],
                        !.alloc_strings_free = f.alloc,
                        !.num_strings = @ + 1],
             idx |-> col.num_strings]

\* push_workitem on snapshot hs and state st: both after the call and the
\* collectable index.
push_workitem(hs, st, kind) ==
    LET c  == grow_storage(hs.collectables, hs.num_collectables,
                           hs.alloc_collectables, ZeroCollectable)
        w  == grow_storage(st.workitems, st.num_workitems,
                           st.alloc_workitems, ZeroWorkItem)
    IN [hs |-> [hs EXCEPT !.collectables = c.store,
                          !.alloc_collectables = c.alloc,
                          !.num_collectables = @ + 1],
        st |-> [st EXCEPT !.workitems =
                              [w.store EXCEPT ![st.num_workitems + 1] =
                                  [kind |-> kind,
                                   col_idx |-> hs.num_collectables,
                                   target |-> NULL]],
                          !.alloc_workitems = w.alloc,
                          !.num_workitems = @ + 1],
        col_idx |-> hs.num_collectables]

\* A pop that leaves the item on the list.
pop_workitem_Keep(st) ==
    [st |-> st, item |-> st.workitems[st.num_workitems]]

\* pop_workitem: the state after the call and the item.
pop_workitem(st) ==
    [st   |-> [st EXCEPT !.num_workitems = @ - 1],
     item |-> st.workitems[st.num_workitems]]

\* set_ref_from: panics when the collectable already has references.
set_ref_from_panics(hs, col_idx) == hs.collectables[col_idx + 1].num_refs # 0

set_ref_from_hs(hs, col_idx) ==
    [hs EXCEPT !.collectables[col_idx + 1].refs_start = hs.num_references]

\* add_reference: the snapshot after the call.  The description packs the
\* index and the kind of the reference into one integer.
add_reference(hs, st, ref_kind, index, to) ==
    LET r == grow_storage(hs.references, hs.num_references,
                          hs.alloc_references, ZeroReference)
    IN [hs EXCEPT !.references =
                      [r.store EXCEPT ![hs.num_references + 1] =
                          [description |-> [index |-> index,
                                            kind |-> ref_kind],
                           collectable_index |-> to]],
                  !.alloc_references = r.alloc,
                  !.num_references = @ + 1,
                  !.collectables[st.ref_from + 1].num_refs = @ + 1]

\* add_reference_const_cstr(tc, ss, cstr, push_workitem(tc, ss, kind, NULL))
\* on collection col, whose snapshot being recorded is the one after the
\* last finished.
add_root_reference(col, st, cstr, kind) ==
    LET n  == col.num_snapshots + 1
        p  == push_workitem(col.snapshots[n], st, kind)
        g  == get_string_index([col EXCEPT !.snapshots[n] = p.hs], cstr, 1)
    IN [col |-> [g.col EXCEPT !.snapshots[n] =
                    add_reference(p.hs, p.st, "STRING", g.idx, p.col_idx)],
        st  |-> p.st]

\* The four collectables the root of roots refers to, in the order of the
\* code.
RootRefs ==
    <<[cstr |-> "Permanent Roots",   kind |-> "PERM_ROOTS"],
      [cstr |-> "VM Instance Roots", kind |-> "INSTANCE_ROOTS"],
      [cstr |-> "C Stack Roots",     kind |-> "CSTACK_ROOTS"],
      [cstr |-> "Thread Roots",      kind |-> "THREAD_ROOTS"]>>

\* The profiler is off.
HsIdle ==
    /\ heap_snapshots = NoCollection
    /\ ss = ZeroState
    /\ hpc = [at |-> "idle", n |-> 0]
    /\ taken = <<>>

\* MVM_profile_heap_profiling
MVM_profile_heap_profiling == heap_snapshots # NoCollection

\* The collection, and the snapshot record_snapshot writes to.
Col == heap_snapshots[1]

CurSnapshot == Col.snapshots[Col.num_snapshots + 1]

\* MVM_profile_heap_start
MVM_profile_heap_start ==
    /\ hpc.at = "idle"
    /\ heap_snapshots' = <<ZeroCollection>>
    /\ UNCHANGED <<ss, hpc, taken>>
    /\ UNCHANGED <<csvars, optvars>>

\* MVM_profile_heap_take_snapshot up to the call of process_workitems in
\* record_snapshot; without profiling it does nothing.
MVM_profile_heap_take_snapshot ==
    /\ hpc.at = "idle"
    /\ IF MVM_profile_heap_profiling
       THEN /\ Col.num_snapshots < MaxSnapshots
            /\ LET s == grow_storage(Col.snapshots, Col.num_snapshots,
                                     Col.alloc_snapshots, ZeroSnapshot)
                   n == Col.num_snapshots + 1
                   p == push_workitem(s.store[n], ZeroState, "ROOT")
               IN /\ heap_snapshots' =
                        <<[Col EXCEPT
                             !.snapshots = [s.store EXCEPT ![n] = p.hs],
                             !.alloc_snapshots = s.alloc]>>
                  /\ ss' = p.st
            /\ hpc' = [at |-> "process_workitems", n |-> 0]
            /\ taken' = <<>>
       ELSE UNCHANGED <<heap_snapshots, ss, hpc, taken>>
    /\ UNCHANGED <<csvars, optvars>>

\* One turn of the while loop of process_workitems up to the switch: the
\* pop, col->kind and set_ref_from.
PopWorkItem ==
    /\ hpc.at = "process_workitems"
    /\ ss.num_workitems > 0
    /\ LET p  == pop_workitem(ss)
           hs == [CurSnapshot EXCEPT
                     !.collectables[p.item.col_idx + 1].kind = p.item.kind]
       IN /\ taken' = Append(taken, p.item.col_idx)
          /\ IF set_ref_from_panics(hs, p.item.col_idx)
             THEN /\ ss' = p.st
                  /\ heap_snapshots' =
                        <<[Col EXCEPT !.snapshots[Col.num_snapshots + 1] = hs]>>
                  /\ hpc' = [at |-> "panic", n |-> 0]
             ELSE /\ ss' = [p.st EXCEPT !.ref_from = p.item.col_idx]
                  /\ heap_snapshots' =
                        <<[Col EXCEPT !.snapshots[Col.num_snapshots + 1] =
                                set_ref_from_hs(hs, p.item.col_idx)]>>
                  /\ hpc' = CASE p.item.kind = "ROOT" ->
                                    [at |-> "root", n |-> 1]
                              [] p.item.kind \in {"PERM_ROOTS",
                                     "INSTANCE_ROOTS", "CSTACK_ROOTS",
                                     "THREAD_ROOTS"} ->
                                    [at |-> "process_workitems", n |-> 0]
                              [] OTHER -> [at |-> "panic", n |-> 0]
    /\ UNCHANGED <<csvars, optvars>>

\* One of the four statements of case MVM_SNAPSHOT_COL_KIND_ROOT.
AddRootReference ==
    /\ hpc.at = "root"
    /\ LET a == add_root_reference(Col, ss, RootRefs[hpc.n].cstr,
                                   RootRefs[hpc.n].kind)
       IN /\ heap_snapshots' = <<a.col>>
          /\ ss' = a.st
    /\ hpc' = IF hpc.n < Len(RootRefs)
              THEN [hpc EXCEPT !.n = @ + 1]
              ELSE [at |-> "process_workitems", n |-> 0]
    /\ UNCHANGED taken
    /\ UNCHANGED <<csvars, optvars>>

\* process_workitems returns; record_snapshot frees the work items and
\* MVM_profile_heap_take_snapshot counts the snapshot.
SnapshotRecorded ==
    /\ hpc.at = "process_workitems"
    /\ ss.num_workitems = 0
    /\ heap_snapshots' = <<[Col EXCEPT !.num_snapshots = @ + 1]>>
    /\ ss' = [ss EXCEPT !.workitems = <<>>]
    /\ hpc' = [at |-> "idle", n |-> 0]
    /\ UNCHANGED taken
    /\ UNCHANGED <<csvars, optvars>>

\* MVM_profile_heap_end: the data set is built and the collection freed;
\* without a collection the null pointer is read.
MVM_profile_heap_end ==
    /\ hpc.at = "idle"
    /\ IF MVM_profile_heap_profiling
       THEN /\ heap_snapshots' = NoCollection
            /\ UNCHANGED hpc
       ELSE /\ hpc' = [at |-> "fault", n |-> 0]
            /\ UNCHANGED heap_snapshots
    /\ UNCHANGED <<ss, taken>>
    /\ UNCHANGED <<csvars, optvars>>
(***************************************************************************)
(* Specifications of the interner.                                         *)
(*   Spec      every handle is passed to the interner once                 *)
(*   SpecAny   handles may be passed again                                 *)
(*   SpecFair  Spec with every thread scheduled again and again            *)
(***************************************************************************)
vars == <<csvars, optvars, hsvars>>

\* The interner is checked with no optimizer running, and the optimizer
\* with an interner that holds nothing.
EmptyGraph ==
    [bbs |-> <<>>, entry |-> NULL, num_bbs |-> 0, facts |-> <<>>,
     spesh_slots |-> <<>>, alloc_spesh_slots |-> 0, log_guards |-> <<>>,
     log_slots |-> <<>>, arg_guards |-> <<>>, next_id |-> 1]

OptIdle ==
    /\ graph = EmptyGraph
    /\ opc = [phase |-> "idle", run |-> 0, bb |-> NULL, ins |-> NULL,
              stack |-> <<>>, orig_bbs |-> 0]
    /\ call_info = UninitCallInfo
    /\ seen = <<>>
    /\ graph_prev = EmptyGraph
    /\ graph_in = EmptyGraph

CsIdle ==
    /\ mem = [a \in Addrs |-> inv_arg_callsite]
    /\ cs_ptr = [h \in Handles |-> h]
    /\ by_arity = [a \in Arities |-> <<>>]
    /\ alloc_arity = [a \in Arities |-> 0]
    /\ mutex = 0
    /\ pc = [t \in Threads |-> "idle"]
    /\ frame = [t \in Threads |-> NoFrame]
    /\ passed = {}
    /\ recalls = 0
    /\ last = [t \in Threads |-> NoCall]
    /\ common_ret = NoRet

Init == CsInit /\ OptIdle /\ HsIdle

Next ==
    \/ MVM_callsite_initialize_common
    \/ \E t \in Threads, h \in Handles : TryIntern(t, h)
    \/ \E t \in Threads : Lock(t)
    \/ \E t \in Threads : Search(t)
    \/ \E t \in Threads : Store(t)
    \/ \E t \in Threads : Unlock(t)
    \/ \E id \in CommonIds : MVM_callsite_get_common(id)

Spec == Init /\ [][Next]_vars

NextAny ==
    \/ MVM_callsite_initialize_common
    \/ \E t \in Threads, h \in Handles : TryIntern(t, h)
    \/ \E t \in Threads, h \in Handles : TryInternAgain(t, h)
    \/ \E t \in Threads : Lock(t)
    \/ \E t \in Threads : Search(t)
    \/ \E t \in Threads : Store(t)
    \/ \E t \in Threads : Unlock(t)
    \/ \E id \in CommonIds : MVM_callsite_get_common(id)

SpecAny == Init /\ [][NextAny]_vars

\* The callsites of the fairness specification: enough for a hit, a miss
\* and a rejected callsite.
FairCallsites ==
    { Callsite(<<ARG_OBJ>>, 1, 1, 0, <<>>),
      Callsite(<<ARG_OBJ, ARG_OBJ>>, 2, 2, 0, <<>>),
      Callsite(<<ARG_OBJ, ARG_FLAT_OBJ>>, 2, 2, 1, <<>>) }

InitFair ==
    /\ CsInit
    /\ OptIdle
    /\ HsIdle
    /\ \A a \in Addrs : a # StaticAddr => mem[a] \in FairCallsites

NextFair ==
    \/ MVM_callsite_initialize_common
    \/ \E t \in Threads, h \in Handles : TryIntern(t, h)
    \/ \E t \in Threads : Lock(t)
    \/ \E t \in Threads : Search(t)
    \/ \E t \in Threads : Store(t)
    \/ \E t \in Threads : Unlock(t)

\* A thread inside the call keeps running; a thread waiting for the mutex
\* gets it once it stays free.
ThreadFairness ==
    \A t \in Threads :
        /\ WF_vars(Lock(t))
        /\ WF_vars(Search(t))
        /\ WF_vars(Store(t))
        /\ WF_vars(Unlock(t))

SpecFair == InitFair /\ [][NextFair]_vars /\ ThreadFairness


(***************************************************************************)
(* Specifications of the optimizer.                                        *)
(*   SpecOpt   MVM_spesh_optimize, run NumRuns times on a graph            *)
(*   SpecBBs   eliminate_dead_bbs on blocks with any successor edges       *)
(***************************************************************************)
\* Sequences of up to n groups.
SnippetSeqs(n) == UNION { [1..k -> Snippets] : k \in 0..n }

InitOpt ==
    /\ CsIdle
    /\ HsIdle
    /\ \E sns \in SnippetSeqs(MaxSnippets), br \in Branches :
          /\ br.own = 0 => Len(sns) > 0 /\ HasDest(sns[Len(sns)])
          /\ graph = BuildGraph(sns, br)
    /\ opc = EnterOptimize(graph, 1)
    /\ call_info = UninitCallInfo
    /\ seen = <<>>
    /\ graph_prev = graph
    /\ graph_in = graph

NextOpt ==
    \/ OptimizeIns
    \/ VisitChild
    \/ ReturnFromBB
    \/ EliminateDeadIns
    \/ EliminateDeadBBs
    \/ RenumberBBs
    \/ EliminateUnusedLogGuards
    \/ OptimizeAgain

SpecOpt == InitOpt /\ [][NextOpt]_vars

\* The successors a block can have: none, one or two blocks.
SuccSeqs(n) ==
    {<<>>} \cup { <<a>> : a \in 1..n }
           \cup { <<a, b>> : a \in 1..n, b \in 1..n }

\* n blocks without instructions in linear order, block 1 the entry.
BlocksGraph(n, succ, inlined) ==
    [bbs    |-> [b \in 1..n |->
                   BB(<<>>, succ[b], <<>>,
                      IF b < n THEN b + 1 ELSE NULL, b - 1, inlined[b])],
     entry  |-> 1,
     num_bbs |-> n,
     facts  |-> <<>>,
     spesh_slots |-> <<>>,
     alloc_spesh_slots |-> 0,
     log_guards |-> <<>>,
     log_slots |-> LogSlots,
     arg_guards |-> <<>>,
     next_id |-> 1]

\* eliminate_dead_bbs is entered with the graph the earlier passes left.
InitBBs ==
    /\ CsIdle
    /\ HsIdle
    /\ \E n \in 2..MaxBBs :
          \E succ \in [1..n -> SuccSeqs(n)], inlined \in [1..n -> 0..1] :
             /\ \A b \in 1..n : Len(succ[b]) = 2 => succ[b][1] < succ[b][2]
             /\ graph = BlocksGraph(n, succ, inlined)
    /\ opc = [EnterOptimize(graph, 1) EXCEPT
                 !.phase = "eliminate_dead_bbs", !.stack = <<>>,
                 !.orig_bbs = graph.num_bbs]
    /\ call_info = UninitCallInfo
    /\ seen = [i \in 0..(graph.num_bbs - 1) |-> UNINIT]
    /\ graph_prev = graph
    /\ graph_in = graph

NextBBs ==
    \/ EliminateDeadBBs
    \/ RenumberBBs

SpecBBs == InitBBs /\ [][NextBBs]_vars

(***************************************************************************)
(*   SpecDeadIns   eliminate_dead_ins, in the order of the code or in any  *)
(*                 order, on programs with dead instructions               *)
(***************************************************************************)
InitDeadIns ==
    /\ CsIdle
    /\ HsIdle
    /\ \E prog \in DeadInsPrograms, off \in {0} \cup DeadInsRegs,
          delta \in {-1, 1} :
          \E k \in 0..Len(prog) :
             /\ off = 0 => delta = 1
             /\ graph = DeadInsGraph(prog, k, off, delta)
    /\ \E phase \in {"eliminate_dead_ins", "eliminate_dead_ins_any_order"} :
          opc = [EnterOptimize(graph, 1) EXCEPT !.phase = phase,
                                                !.stack = <<>>]
    /\ call_info = UninitCallInfo
    /\ seen = <<>>
    /\ graph_prev = graph
    /\ graph_in = graph

NextDeadIns ==
    \/ EliminateDeadIns
    \/ EliminateDeadInsAnyOrder

SpecDeadIns == InitDeadIns /\ [][NextDeadIns]_vars

(***************************************************************************)
(*   SpecCand   try_find_spesh_candidate on a code object, a callsite and  *)
(*              argument facts of every kind                               *)
(***************************************************************************)
\* The facts an argument register can have.
CandFacts ==
    <<ConcType(1), TypeObjType(1), DecontType(1),
      [NoFacts EXCEPT !.flags = {KNOWN_DECONT_TYPE, DECONT_TYPEOBJ},
                      !.decont_type = 2],
      ConcType(2), KnownType(1), NoFacts>>

CandGraph ==
    [EmptyGraph EXCEPT
        !.facts = [r \in DOMAIN CandFacts |->
                     [flags |-> CandFacts[r].flags, type |-> CandFacts[r].type,
                      decont_type |-> CandFacts[r].decont_type,
                      value |-> CandFacts[r].value, log_guard |-> 0,
                      usages |-> 1]]]

\* An arg_info with every member written: the first two slots hold the
\* facts of a register or NULL, the others NULL.
CandCallInfos ==
    { [cs           |-> cs,
       prepargs_ins |-> NULL,
       arg_is_const |-> [i \in ArgSlots |-> 0],
       arg_facts    |-> [i \in ArgSlots |->
                            CASE i = 1 -> a [] i = 2 -> b [] OTHER -> NULL],
       arg_ins      |-> [i \in ArgSlots |-> NULL]] :
          cs \in {1, 2},
          a \in {NULL} \cup DOMAIN CandFacts,
          b \in {NULL} \cup DOMAIN CandFacts }

InitCand ==
    /\ CsIdle
    /\ HsIdle
    /\ graph = CandGraph
    /\ call_info \in CandCallInfos
    /\ \E code \in {1, 2, 15} :
          opc = [phase |-> "try_find_spesh_candidate", run |-> 0,
                 bb |-> NULL, ins |-> NULL,
                 stack |-> <<[code |-> code, spesh_cand |-> UNINIT]>>,
                 orig_bbs |-> 0]
    /\ seen = <<>>
    /\ graph_prev = graph
    /\ graph_in = graph

NextCand == TryFindSpeshCandidate

SpecCand == InitCand /\ [][NextCand]_vars

(***************************************************************************)
(*   SpecSlots   MVM_spesh_add_spesh_slot called up to MaxSlotAdds times   *)
(*               on a graph that already holds some slots                  *)
(***************************************************************************)
\* The numbers of slots the graph starts with: around a step of the
\* capacity and around the largest MVMint16.
SlotCounts == {0, 1, 7, 8, 9, 32766, 32767, 32768}

\* A graph after n calls of MVM_spesh_add_spesh_slot.
SlotsGraph(n) ==
    [EmptyGraph EXCEPT
        !.spesh_slots = [i \in 1..n |-> IF i % 2 = 0 THEN NULL ELSE 1],
        !.alloc_spesh_slots = 8 * ((n + 7) \div 8)]

\* One call ss = MVM_spesh_add_spesh_slot(tc, g, c); the frame keeps the
\* argument and the index returned.
AddSpeshSlot ==
    /\ opc.phase = "add_spesh_slot"
    /\ opc.run < MaxSlotAdds
    /\ \E c \in {NULL, 2, 3} :
          LET a == MVM_spesh_add_spesh_slot(graph, c)
          IN /\ graph' = a.g
             /\ opc' = [opc EXCEPT !.run = @ + 1,
                                   !.stack = <<[c |-> c, ss |-> a.ss]>>]
    /\ UNCHANGED <<call_info, seen, graph_prev, graph_in>>
    /\ UNCHANGED <<csvars, hsvars>>

InitSlots ==
    /\ CsIdle
    /\ HsIdle
    /\ \E n \in SlotCounts : graph = SlotsGraph(n)
    /\ opc = [phase |-> "add_spesh_slot", run |-> 0, bb |-> NULL,
              ins |-> NULL, stack |-> <<>>, orig_bbs |-> 0]
    /\ call_info = UninitCallInfo
    /\ seen = <<>>
    /\ graph_prev = graph
    /\ graph_in = graph

NextSlots == AddSpeshSlot

SpecSlots == InitSlots /\ [][NextSlots]_vars

(***************************************************************************)
(*   SpecHeap   heap profiling: started, up to MaxSnapshots snapshots      *)
(*              taken, ended, and started again                            *)
(***************************************************************************)
InitHeap == CsIdle /\ OptIdle /\ HsIdle

NextHeap ==
    \/ MVM_profile_heap_start
    \/ MVM_profile_heap_take_snapshot
    \/ PopWorkItem
    \/ AddRootReference
    \/ SnapshotRecorded
    \/ MVM_profile_heap_end

SpecHeap == InitHeap /\ [][NextHeap]_vars
(***************************************************************************)
(* Notions the claims are stated with.                                     *)
(***************************************************************************)
\* The call made with handle h has returned.
Done(h) ==
    /\ h \in passed
    /\ \A t \in Threads : pc[t] # "idle" => frame[t].h # h

\* The places of the intern table that hold a pointer.
Entries ==
    { e \in Arities \X (1 .. (MaxHandles + 1 + MaxRecalls)) :
        e[2] <= Len(by_arity[e[1]]) }

EntryAt(e) == by_arity[e[1]][e[2]]

\* Two callsites differ in arity, in a flag byte or in a name.
ShapesDiffer(c1, c2) ==
    \/ NumFlags(c1) # NumFlags(c2)
    \/ \E i \in 1 .. NumFlags(c1) : c1.arg_flags[i] # c2.arg_flags[i]
    \/ Len(c1.arg_names) # Len(c2.arg_names)
    \/ \E i \in 1 .. Len(c1.arg_names) :
          c1.arg_names[i].chars # c2.arg_names[i].chars

AllIdle == \A t \in Threads : pc[t] = "idle"


\* A callsite that meets the interning preconditions: no flattening, names
\* known when it has named arguments, fewer flags than the arity limit.
Internable(c) ==
    /\ c.has_flattening = 0
    /\ (c.arg_count - c.num_pos >= 2 => c.arg_names # <<>>)
    /\ c.num_pos + ((c.arg_count - c.num_pos) \div 2) < MVM_INTERN_ARITY_LIMIT

\* The comparison of the interner applied to two whole callsites: the same
\* number of flags, the same flag bytes, the same names by contents.
InternerEqual(c1, c2) == ~ShapesDiffer(c1, c2)

(***************************************************************************)
(* C1: after any interleaving of try_intern calls by the threads, any two  *)
(* distinct entries of the intern table are different pointers and the     *)
(* callsites they point to differ in arity, in a flag byte or in a name.   *)
(***************************************************************************)
C1_InternedDistinct ==
    \A e1 \in Entries, e2 \in Entries :
        e1 # e2 =>
            /\ EntryAt(e1) # EntryAt(e2)
            /\ ShapesDiffer(mem[EntryAt(e1)], mem[EntryAt(e2)])

\* Two threads interned callsites of one arity: one bucket holds two
\* entries and a call of each thread came back, one of them with a hit.
C1_Witness ==
    /\ \E a \in Arities : Len(by_arity[a]) >= 2
    /\ \E t \in Threads, u \in Threads :
          t # u /\ last[t].op = "hit" /\ last[u].op = "miss"

(***************************************************************************)
(* C2: a callsite stored in the intern table is never freed and never      *)
(* mutated afterwards, whatever pointer later calls pass: every pointer in *)
(* by_arity refers to a live callsite that is still as it was stored       *)
(* (the shape it was made with, is_interned = 1).                          *)
(***************************************************************************)
C2_InternedNeverFreed ==
    \A e \in Entries :
        /\ mem[EntryAt(e)].live
        /\ mem[EntryAt(e)].is_interned = 1

(***************************************************************************)
(* C3 as stated: two handles that went through try_intern hold callsites   *)
(* that are equal by the interner's comparison iff they hold the same      *)
(* pointer.                                                                *)
(***************************************************************************)
C3_EqualIffSameHandle ==
    \A h1 \in Handles, h2 \in Handles :
        (Done(h1) /\ Done(h2)) =>
            (InternerEqual(mem[cs_ptr[h1]], mem[cs_ptr[h2]])
                <=> cs_ptr[h1] = cs_ptr[h2])

(***************************************************************************)
(* C3 amended: two handles that went through try_intern and whose          *)
(* callsites meet the interning preconditions (no flattening, names known  *)
(* when there are named arguments, fewer flags than the arity limit) hold  *)
(* callsites that are equal by the interner's comparison iff they hold the *)
(* same pointer.                                                           *)
(***************************************************************************)
C3_InternableEqualIffSameHandle ==
    \A h1 \in Handles, h2 \in Handles :
        (/\ Done(h1) /\ Done(h2)
         /\ Internable(mem[cs_ptr[h1]])
         /\ Internable(mem[cs_ptr[h2]])) =>
            (InternerEqual(mem[cs_ptr[h1]], mem[cs_ptr[h2]])
                <=> cs_ptr[h1] = cs_ptr[h2])

\* Two handles made for equal callsites ended as one pointer, and a third
\* handle of the same arity holds another one.
C3_Witness ==
    \E h1 \in Handles, h2 \in Handles, h3 \in Handles :
        /\ h1 # h2 /\ Done(h1) /\ Done(h2) /\ Done(h3)
        /\ Internable(mem[h1]) /\ Internable(mem[h3])
        /\ cs_ptr[h1] = cs_ptr[h2]
        /\ cs_ptr[h3] # cs_ptr[h1]
        /\ NumFlags(mem[cs_ptr[h3]]) = NumFlags(mem[cs_ptr[h1]])

(***************************************************************************)
(* C4: try_intern on a callsite with has_flattening, or with named         *)
(* arguments and no arg_names, or with num_flags >= the arity limit        *)
(* changes nothing: *cs_ptr, the callsite (not freed, is_interned not      *)
(* set), every bucket of the table, and it does not take the mutex (the    *)
(* call returns in its first step).                                        *)
(***************************************************************************)
C4_RejectedIsNoop ==
    [][\A h \in Handles :
          (h \in passed' /\ h \notin passed /\ ~Internable(mem[cs_ptr[h]])) =>
              /\ cs_ptr' = cs_ptr
              /\ mem' = mem
              /\ by_arity' = by_arity
              /\ alloc_arity' = alloc_arity
              /\ mutex' = mutex
              /\ pc' = pc]_vars

\* A rejected callsite of each of the three kinds went through a call while
\* the table already held entries.
C4_Witness ==
    /\ \E e \in Entries : TRUE
    /\ \E h \in Handles :
          Done(h) /\ mem[h].has_flattening # 0 /\ mem[h].live /\ cs_ptr[h] = h
    /\ \E h \in Handles :
          Done(h) /\ NumFlags(mem[h]) >= MVM_INTERN_ARITY_LIMIT /\ mem[h].live
    /\ \E h \in Handles :
          /\ Done(h) /\ NumNameds(mem[h]) > 0 /\ IsNullNames(mem[h].arg_names)
          /\ mem[h].live /\ mem[h].is_interned = 0
    /\ \E t \in Threads : last[t].op = "noop"

(***************************************************************************)
(* C5: for a callsite that passes the preconditions, a finished call has   *)
(* either found an equal entry (the passed callsite is freed, *cs_ptr is   *)
(* that entry, the table did not grow) or appended the passed callsite as  *)
(* the last entry of the bucket of its arity with is_interned = 1 and      *)
(* *cs_ptr unchanged; so once all calls are back every bucket holds one    *)
(* entry per distinct shape interned at that arity.                        *)
(***************************************************************************)
C5_Outcome ==
    \A h \in Handles :
        (Done(h) /\ Internable(mem[h])) =>
            LET p == cs_ptr[h]
                a == NumFlags(mem[h])
            IN /\ \E i \in 1 .. Len(by_arity[a]) : by_arity[a][i] = p
               /\ InternerEqual(mem[p], mem[h])
               /\ mem[p].live /\ mem[p].is_interned = 1
               /\ (p # h => (~mem[h].live /\ mem[h].is_interned = 0))

C5_OnePerShape ==
    AllIdle =>
        \A a \in Arities :
            /\ \A i \in 1 .. Len(by_arity[a]) :
                  \E h \in Handles : Done(h) /\ by_arity[a][i] = h /\ cs_ptr[h] = h
            /\ \A h \in Handles :
                  (Done(h) /\ Internable(mem[h]) /\ NumFlags(mem[h]) = a) =>
                      Cardinality({ i \in 1 .. Len(by_arity[a]) :
                                      InternerEqual(mem[by_arity[a][i]], mem[h]) }) = 1

C5_AppendOrKeep ==
    \A a \in Arities :
        \/ by_arity'[a] = by_arity[a]
        \/ \E t \in Threads :
              /\ pc[t] = "store" /\ frame[t].num_flags = a
              /\ by_arity'[a] = Append(by_arity[a], frame[t].cs)
              /\ cs_ptr'[frame[t].h] = frame[t].cs
              /\ ~\E i \in 1 .. Len(by_arity[a]) :
                    InternerEqual(mem[by_arity[a][i]], mem[frame[t].cs])

C5_InternHitOrAppend ==
    /\ [](C5_Outcome /\ C5_OnePerShape)
    /\ [][C5_AppendOrKeep]_vars

\* The scenario of the spec: equal, equal, one flag different, at one
\* arity: all calls are back, the second was a hit and the bucket holds
\* exactly two entries.
C5_Witness ==
    /\ AllIdle
    /\ \E a \in Arities, h1 \in Handles, h2 \in Handles, h3 \in Handles :
          /\ Len(by_arity[a]) = 2
          /\ Done(h1) /\ Done(h2) /\ Done(h3) /\ h1 # h2
          /\ cs_ptr[h1] = h1 /\ cs_ptr[h2] = h1 /\ ~mem[h2].live
          /\ cs_ptr[h3] = h3 /\ mem[h3].is_interned = 1
          /\ by_arity[a] = <<h1, h3>>
          /\ mem[h1].arg_flags # mem[h3].arg_flags

(***************************************************************************)
(* C6: the steps of try_intern that read or write the intern table (the    *)
(* search, the store) run only while the thread holds the mutex, at most   *)
(* one thread is in them, a thread outside a call does not hold the mutex, *)
(* and every call that was started returns.                                *)
(***************************************************************************)
C6_HoldsMutex ==
    /\ \A t \in Threads :
          /\ pc[t] \in {"search", "store", "unlock"} => mutex = t
          /\ pc[t] \in {"idle", "lock"} => mutex # t
    /\ \A t \in Threads, u \in Threads :
          (pc[t] \in {"search", "store"} /\ pc[u] \in {"search", "store"}) => t = u

C6_MutexAndReturn ==
    /\ []C6_HoldsMutex
    /\ \A t \in Threads : (pc[t] # "idle") ~> (pc[t] = "idle")

\* A thread waits for the mutex while another one is searching the table.
C6_Witness ==
    \E t \in Threads, u \in Threads :
        pc[t] = "lock" /\ pc[u] = "search" /\ mutex = u

(***************************************************************************)
(* C7: get_common returns the one-object-argument callsite for INV_ARG and *)
(* signals an error for every other id (and only then); once               *)
(* initialize_common has returned, the callsite of INV_ARG is an entry of  *)
(* the intern table with is_interned = 1.                                  *)
(***************************************************************************)
C7_GetCommon ==
    /\ common_ret.called =>
          IF common_ret.id = MVM_CALLSITE_ID_INV_ARG
          THEN /\ ~common_ret.error
               /\ common_ret.val = cs_ptr[StaticHandle]
               /\ mem[common_ret.val].arg_flags = <<ARG_OBJ>>
               /\ mem[common_ret.val].num_pos = 1
               /\ mem[common_ret.val].arg_count = 1
          ELSE common_ret.error
    /\ CommonInitialized =>
          /\ \E i \in 1 .. Len(by_arity[1]) : by_arity[1][i] = cs_ptr[StaticHandle]
          /\ mem[cs_ptr[StaticHandle]].is_interned = 1
          /\ mem[cs_ptr[StaticHandle]].live

\* get_common(INV_ARG) was called after initialize_common had returned and
\* other callsites had been interned.
C7_Witness ==
    /\ CommonInitialized
    /\ common_ret.called /\ common_ret.id = MVM_CALLSITE_ID_INV_ARG
    /\ Len(by_arity[1]) = 1 /\ Len(by_arity[2]) >= 1

\* get_common was called with an id that is not defined.
C7_WitnessUnknown == common_ret.called /\ common_ret.error

(***************************************************************************)
(* Notions the optimizer claims are stated with.                           *)
(***************************************************************************)
\* What a reader of the graph sees: the blocks in linear order, for each
\* its successors and its instructions (op and the operands the op has),
\* the facts and the spesh slots.
Visible(g) ==
    [order |-> LinearOrder(g),
     succ  |-> [b \in OnList(g) |-> g.bbs[b].succ],
     code  |-> [b \in OnList(g) |->
                  [i \in 1..Len(g.bbs[b].ins) |->
                      [op |-> g.bbs[b].ins[i].op,
                       o  |-> IF g.bbs[b].ins[i].op = "PHI"
                              THEN g.bbs[b].ins[i].o
                              ELSE SubSeq(g.bbs[b].ins[i].o, 1,
                                       Len(OpOperands(g.bbs[b].ins[i].op)))]]],
     facts |-> g.facts,
     spesh_slots |-> g.spesh_slots]

\* The number of instructions still in the graph that read register r.
ReadCount(g, r) == Cardinality(Reads(g.bbs, OnList(g), r))

RunDone == opc.phase = "done"

\* C8: a second run of MVM_spesh_optimize on the graph a first run produced
\* leaves the graph as it is: the same blocks, instructions, facts and
\* spesh slots.
C8_SecondRunChangesNothing ==
    (RunDone /\ opc.run > 1) => Visible(graph) = Visible(graph_prev)

\* C9: when MVM_spesh_optimize has finished, the usages of every register
\* equal the number of instructions still in the graph that read it.
C9_UsagesAreReadCounts ==
    RunDone =>
        \A r \in DOMAIN graph.facts :
            graph.facts[r].usages = ReadCount(graph, r)

\* C10: no step of eliminate_dead_bbs takes the entry block or a block
\* flagged inlined off the linear order, whatever the successor edges are.
C10_KeepsEntryAndInlined ==
    [][opc.phase = "eliminate_dead_bbs" =>
          \A b \in OnList(graph) :
              (b = graph.entry \/ graph.bbs[b].inlined # 0)
                  => b \in OnList(graph')]_vars

\* eliminate_dead_bbs has removed a block and has kept an inlined block
\* that no block on the list has as a successor.
C10_Witness ==
    /\ opc.phase = "renumber"
    /\ graph.num_bbs < opc.orig_bbs
    /\ graph.entry \in OnList(graph)
    /\ \E b \in OnList(graph) :
          /\ b # graph.entry
          /\ graph.bbs[b].inlined # 0
          /\ seen[graph.bbs[b].idx] = 0

(***************************************************************************)
(* Claims about eliminate_dead_ins.                                        *)
(***************************************************************************)
\* The instructions of every block on the list and the usages counters.
InsAndUsages(g) ==
    [code   |-> [b \in OnList(g) |-> g.bbs[b].ins],
     usages |-> [r \in DOMAIN g.facts |-> g.facts[r].usages]]

\* A PHI, or a pure instruction whose first operand is a written register,
\* with a usages counter of 0 for the register it writes.
IsDeadIns(g, ins) ==
    /\ \/ ins.op = "PHI"
       \/ OpPure(ins.op) /\ InsOperands(ins)[1] = "w"
    /\ g.facts[ins.o[1].v].usages = 0

NoDeadIns(g) ==
    \A b \in OnList(g) :
        \A i \in 1..Len(g.bbs[b].ins) : ~IsDeadIns(g, g.bbs[b].ins[i])

\* The number of instructions in the blocks on the list.
RECURSIVE SumLens(_, _)
SumLens(g, order) ==
    IF order = <<>> THEN 0
    ELSE Len(g.bbs[Head(order)].ins) + SumLens(g, Tail(order))

NumIns(g) == SumLens(g, LinearOrder(g))

IsDeadChain(g) ==
    /\ \E k \in 0..3 : g = DeadInsGraph(
           <<Ins(1, "const_i64_16", <<Reg(1), Lit(5)>>),
             Ins(2, "set", <<Reg(2), Reg(1)>>),
             Ins(3, "set", <<Reg(3), Reg(2)>>)>>, k, 0, 1)

\* C19: every sweep of eliminate_dead_ins keeps each instruction that is
\* neither pure nor a PHI, lowers the usages counter of a register by the
\* number of reads of it that it deletes, and deletes something when it asks
\* for another sweep; when the last sweep is done no dead PHI and no dead
\* pure instruction is left, and of the chain of three nothing is left.
C19_DeadInsFixedPoint ==
    [][opc.phase = "eliminate_dead_ins" =>
          /\ \A b \in OnList(graph) :
                \A i \in 1..Len(graph.bbs[b].ins) :
                   LET ins == graph.bbs[b].ins[i]
                   IN (ins.op # "PHI" /\ ~OpPure(ins.op))
                          => \E j \in 1..Len(graph'.bbs[b].ins) :
                                 graph'.bbs[b].ins[j] = ins
          /\ \A r \in DOMAIN graph.facts :
                graph.facts[r].usages - graph'.facts[r].usages
                    = ReadCount(graph, r) - ReadCount(graph', r)
          /\ opc'.phase = "eliminate_dead_ins" => NumIns(graph') < NumIns(graph)
          /\ opc'.phase # "eliminate_dead_ins" =>
                /\ NoDeadIns(graph')
                /\ IsDeadChain(graph_in) => NumIns(graph') = 0]_vars

\* eliminate_dead_ins has run to its end on the chain of three and has
\* deleted all of it.
C19_Witness ==
    /\ opc.phase = "eliminate_dead_bbs"
    /\ IsDeadChain(graph_in)
    /\ NumIns(graph_in) = 3
    /\ NumIns(graph) = 0

(***************************************************************************)
(* Claims about the rewrite rules.  They are stated about the step of      *)
(* optimize_bb that handles one instruction: CurIns is the instruction     *)
(* before the step, InsAfter the same instruction after it.                *)
(***************************************************************************)
AtIns == opc.phase = "optimize_bb" /\ opc.ins # NULL

CurIns == InsOf(graph, opc.bb, opc.ins)

StillThere == HasIns(graph'.bbs[opc.bb].ins, opc.ins)

InsAfter == InsOf(graph', opc.bb, opc.ins)

\* The facts of operand n (counted from 1) of the current instruction.
FactsOf(n) == graph.facts[CurIns.o[n].v]

FactsAfter(n) == graph'.facts[CurIns.o[n].v]

\* The usages counters, and the change of one of them in the step.
Usages(g) == [r \in DOMAIN g.facts |-> g.facts[r].usages]

UsagesDrop(r) == graph.facts[r].usages - graph'.facts[r].usages

\* The instruction and its block's successors are as they were.
InsUntouched ==
    /\ StillThere
    /\ InsAfter = CurIns
    /\ graph'.bbs[opc.bb].succ = graph.bbs[opc.bb].succ

\* The branch that ends the entry block of the graph the run started with.
BranchIn == graph_in.bbs[1].ins[Len(graph_in.bbs[1].ins)]

HasBranchIn(ops) ==
    /\ Len(graph_in.bbs[1].ins) > 0
    /\ BranchIn.op \in ops

AtKnownZeroBranch ==
    /\ AtIns
    /\ CurIns.op \in {"if_i", "unless_i"}
    /\ KNOWN_VALUE \in FactsOf(1).flags
    /\ FactsOf(1).value = 0

\* C12 as stated: if_i on a known 0 becomes a goto to the fall-through
\* block, unless_i on a known 0 a goto to the label.
C12_KnownZeroBecomesGoto ==
    [][AtKnownZeroBranch =>
          /\ StillThere
          /\ InsAfter.op = "goto"
          /\ InsAfter.o[1] =
                 IF CurIns.op = "if_i"
                 THEN BBRef(graph.bbs[opc.bb].linear_next)
                 ELSE CurIns.o[2]]_vars

\* C12: if_i on a known 0 is deleted and the edge to its label is removed,
\* so that the block falls through; unless_i on a known 0 becomes a goto to
\* the label and the edge to the fall-through block is removed.
C12_KnownZeroBranch ==
    [][AtKnownZeroBranch =>
          IF CurIns.op = "if_i"
          THEN /\ ~StillThere
               /\ graph'.bbs[opc.bb].succ = <<graph.bbs[opc.bb].linear_next>>
          ELSE /\ StillThere
               /\ InsAfter.op = "goto"
               /\ InsAfter.o[1] = CurIns.o[2]
               /\ graph'.bbs[opc.bb].succ = <<CurIns.o[2].v>>]_vars

\* The entry block ended in if_i on a known 0; the walk is past it, the
\* branch is gone and only the fall-through edge is left.
C12_Witness ==
    /\ HasBranchIn({"if_i"})
    /\ KNOWN_VALUE \in graph_in.facts[BranchIn.o[1].v].flags
    /\ graph_in.facts[BranchIn.o[1].v].value = 0
    /\ opc.phase = "eliminate_dead_ins"
    /\ ~HasIns(graph.bbs[1].ins, BranchIn.id)
    /\ graph.bbs[1].succ = <<2>>

\* The first instruction of the entry block of the graph the run started
\* with, and the instruction that has its place now.
FirstIn == graph_in.bbs[1].ins[1]

HasFirstIn(op) ==
    /\ Len(graph_in.bbs[1].ins) > 0
    /\ FirstIn.op = op

FirstNow == InsOf(graph, 1, FirstIn.id)

\* The answer of the type check cache for the types of operands 2 and 3.
IstypeAnswer ==
    MVM_6model_try_cache_type_check(FactsOf(2).type, FactsOf(3).type)

\* C13: istype r1, r2, r3 with KNOWN_TYPE on r2 and r3 and an answer v from
\* the type check cache becomes const_i64_16 r1, v, the facts of r1 gain
\* KNOWN_VALUE = v and the usages of r2 and of r3 drop by 1 each; in every
\* other case the instruction, the facts of r1 and all usages stay.
C13_Istype ==
    [][(AtIns /\ CurIns.op = "istype" /\ CurIns.o[2] # CurIns.o[3]) =>
          IF /\ KNOWN_TYPE \in FactsOf(2).flags
             /\ KNOWN_TYPE \in FactsOf(3).flags
             /\ IstypeAnswer[1] # 0
          THEN /\ StillThere
               /\ InsAfter.op = "const_i64_16"
               /\ InsAfter.o[1] = CurIns.o[1]
               /\ InsAfter.o[2] = Lit(IstypeAnswer[2])
               /\ FactsAfter(1).flags = FactsOf(1).flags \cup {KNOWN_VALUE}
               /\ FactsAfter(1).value = IstypeAnswer[2]
               /\ \A r \in DOMAIN graph.facts :
                     UsagesDrop(r) = IF r \in {CurIns.o[2].v, CurIns.o[3].v}
                                     THEN 1 ELSE 0
          ELSE /\ InsUntouched
               /\ FactsAfter(1) = FactsOf(1)
               /\ Usages(graph') = Usages(graph)]_vars

\* An istype whose operands both have a known type that the cache answers
\* with 1 has become const_i64_16 r1, 1.
C13_Witness ==
    /\ HasFirstIn("istype")
    /\ opc.phase = "eliminate_dead_ins"
    /\ opc.run = 1
    /\ HasIns(graph.bbs[1].ins, FirstIn.id)
    /\ FirstNow.op = "const_i64_16"
    /\ FirstNow.o[2] = Lit(1)
    /\ KNOWN_VALUE \in graph.facts[FirstIn.o[1].v].flags
    /\ graph.facts[FirstIn.o[1].v].value = 1
    /\ graph.facts[FirstIn.o[2].v].usages =
           graph_in.facts[FirstIn.o[2].v].usages - 1
    /\ graph.facts[FirstIn.o[3].v].usages =
           graph_in.facts[FirstIn.o[3].v].usages - 1

\* The method the cache of the receiver's type holds for the name of a
\* findmeth, NULL when the type is not known or the cache has no entry.
FindmethMeth ==
    IF KNOWN_TYPE \in FactsOf(2).flags
    THEN MVM_6model_find_method_cache_only(FactsOf(2).type,
                                           MVM_spesh_get_string(CurIns.o[3]))
    ELSE NULL

\* C14: findmeth r1, r2, name with a known receiver type whose method
\* cache holds M appends exactly one spesh slot k holding M, becomes
\* sp_getspeshslot r1, k, gives r1 KNOWN_VALUE = M and lowers usages[r2] by
\* 1 and no other counter.
C14_FindmethResolved ==
    [][(AtIns /\ CurIns.op = "findmeth" /\ FindmethMeth # NULL) =>
          /\ graph'.spesh_slots = Append(graph.spesh_slots, FindmethMeth)
          /\ StillThere
          /\ InsAfter.op = "sp_getspeshslot"
          /\ InsAfter.o[1] = CurIns.o[1]
          /\ InsAfter.o[2] = Lit(Len(graph.spesh_slots))
          /\ FactsAfter(1).flags = FactsOf(1).flags \cup {KNOWN_VALUE}
          /\ FactsAfter(1).value = FindmethMeth
          /\ \A r \in DOMAIN graph.facts :
                UsagesDrop(r) = IF r = CurIns.o[2].v THEN 1 ELSE 0]_vars

\* A findmeth on a receiver of type 1 for "greet" has become
\* sp_getspeshslot r1, 0 and slot 0 holds the method.
C14_Witness ==
    /\ HasFirstIn("findmeth")
    /\ opc.phase = "eliminate_dead_ins"
    /\ opc.run = 1
    /\ FirstNow.op = "sp_getspeshslot"
    /\ FirstNow.o[2] = Lit(0)
    /\ graph.spesh_slots = <<2>>
    /\ graph.facts[FirstIn.o[1].v].value = 2
    /\ graph.facts[FirstIn.o[2].v].usages =
           graph_in.facts[FirstIn.o[2].v].usages - 1

\* The blocks optimize_bb visits: the entry and the children of visited
\* blocks.
RECURSIVE Dominated(_, _)
Dominated(g, b) ==
    {b} \cup UNION { Dominated(g, g.bbs[b].children[i]) :
                         i \in 1..Len(g.bbs[b].children) }

NoFindmethLeft(g) ==
    \A b \in Dominated(g, g.entry) :
        \A i \in 1..Len(g.bbs[b].ins) : g.bbs[b].ins[i].op # "findmeth"

\* C15: a findmeth that is not resolved becomes sp_findmeth with its three
\* operands and, as the fourth, the index of the first of two NULL spesh
\* slots appended one after the other; no usages counter changes.  When the
\* walk over the blocks has returned no visited block holds a findmeth.
C15_FindmethCached ==
    [][/\ (AtIns /\ CurIns.op = "findmeth" /\ FindmethMeth = NULL) =>
             /\ StillThere
             /\ InsAfter.op = "sp_findmeth"
             /\ InsAfter.o = SubSeq(CurIns.o, 1, 3) \o
                                 <<Lit(Len(graph.spesh_slots))>>
             /\ graph'.spesh_slots = graph.spesh_slots \o <<NULL, NULL>>
             /\ Usages(graph') = Usages(graph)
       /\ (opc.phase = "optimize_bb" /\ opc'.phase = "eliminate_dead_ins")
             => NoFindmethLeft(graph')]_vars

\* A findmeth on a receiver without a known type has become sp_findmeth
\* with slot index 0, and slots 0 and 1 are NULL.
C15_Witness ==
    /\ HasFirstIn("findmeth")
    /\ KNOWN_TYPE \notin graph_in.facts[FirstIn.o[2].v].flags
    /\ opc.phase = "eliminate_dead_ins"
    /\ opc.run = 1
    /\ FirstNow.op = "sp_findmeth"
    /\ FirstNow.o = FirstIn.o \o <<Lit(0)>>
    /\ graph.spesh_slots = <<NULL, NULL>>
    /\ Usages(graph) = Usages(graph_in)

TruthyOps == {"if_i", "unless_i", "if_n", "unless_n", "if_o", "unless_o"}

\* The truth of a known flag value: an integer or a number that is not 0,
\* an object that is true.
Truth(op, value) ==
    IF op \in {"if_o", "unless_o"}
    THEN IF MVM_coerce_istrue(value) # 0 THEN 1 ELSE 0
    ELSE IF value # 0 THEN 1 ELSE 0

Negated(op) == IF op \in {"unless_i", "unless_n", "unless_o"} THEN 1 ELSE 0

\* The successors of the current block without block b.
SuccWithout(b) ==
    MVM_spesh_manipulate_remove_successor(graph, opc.bb, b).bbs[opc.bb].succ

\* C20: a truthy branch on a flag with KNOWN_VALUE becomes goto label and
\* loses the edge to the fall-through block when the truth of the value
\* differs from negated, and otherwise is deleted and loses the edge to the
\* label; either way the usages of the flag drop by 1.
C20_TruthyBranch ==
    [][(AtIns /\ CurIns.op \in TruthyOps /\ KNOWN_VALUE \in FactsOf(1).flags)
          =>
          /\ IF Truth(CurIns.op, FactsOf(1).value) # Negated(CurIns.op)
             THEN /\ StillThere
                  /\ InsAfter.op = "goto"
                  /\ InsAfter.o[1] = CurIns.o[2]
                  /\ graph'.bbs[opc.bb].succ =
                         SuccWithout(graph.bbs[opc.bb].linear_next)
             ELSE /\ ~StillThere
                  /\ graph'.bbs[opc.bb].succ = SuccWithout(CurIns.o[2].v)
          /\ UsagesDrop(CurIns.o[1].v) = 1]_vars

(***************************************************************************)
(* Claims about calls.                                                     *)
(***************************************************************************)
\* A guard holds against arg_facts: its slot is below MAX_ARGS_FOR_OPT and
\* has facts, and the facts have the flags and the S-table its kind asks
\* for.
GuardQualifies(g, guard, arg_info) ==
    /\ guard.slot < MAX_ARGS_FOR_OPT
    /\ arg_info.arg_facts[guard.slot + 1] # NULL
    /\ LET f == g.facts[arg_info.arg_facts[guard.slot + 1]]
       IN \/ /\ guard.kind = "CONC"
             /\ {KNOWN_TYPE, CONCRETE} \subseteq f.flags
             /\ f.type = guard.match
          \/ /\ guard.kind = "TYPE"
             /\ {KNOWN_TYPE, TYPEOBJ} \subseteq f.flags
             /\ f.type = guard.match
          \/ /\ guard.kind = "DC_CONC"
             /\ {KNOWN_DECONT_TYPE, DECONT_CONCRETE} \subseteq f.flags
             /\ f.decont_type = guard.match
          \/ /\ guard.kind = "DC_TYPE"
             /\ {KNOWN_DECONT_TYPE, DECONT_TYPEOBJ} \subseteq f.flags
             /\ f.decont_type = guard.match

\* The indices (from 0) of the candidates of code that qualify.
Qualifying(g, code, arg_info) ==
    { i \in 0..(Len(SpeshCandidates(code)) - 1) :
        LET cand == SpeshCandidates(code)[i + 1]
        IN /\ cand.cs = arg_info.cs
           /\ \A j \in 1..Len(cand.guards) :
                 GuardQualifies(g, cand.guards[j], arg_info) }

CandReturned == opc.phase = "returned"

\* C16: try_find_spesh_candidate returns the lowest index of a candidate
\* whose callsite is that of the call and whose guards all hold against
\* arg_facts, and -1 when there is none; a guard on a slot without facts,
\* on a slot from MAX_ARGS_FOR_OPT on, or of an unknown kind does not hold.
C16_LowestQualifying ==
    CandReturned =>
        LET q == Qualifying(graph, opc.stack[1].code, call_info)
            spesh_cand == opc.stack[1].spesh_cand
        IN IF q = {}
           THEN spesh_cand = -1
           ELSE spesh_cand \in q /\ \A i \in q : spesh_cand <= i

\* The search has passed over a candidate with a guard of an unknown kind
\* and has returned the candidate with two decont guards although a later
\* one qualifies as well.
C16_Witness ==
    /\ CandReturned
    /\ opc.stack[1].code = 15
    /\ opc.stack[1].spesh_cand = 1
    /\ Qualifying(graph, 15, call_info) = {1, 4}

InvokeOps == {"invoke_v", "invoke_i", "invoke_n", "invoke_s", "invoke_o"}

\* The fast-invoke op of the same return kind.
FastInvokeOf(op) ==
    CASE op = "invoke_v" -> "sp_fastinvoke_v"
      [] op = "invoke_i" -> "sp_fastinvoke_i"
      [] op = "invoke_n" -> "sp_fastinvoke_n"
      [] op = "invoke_s" -> "sp_fastinvoke_s"
      [] op = "invoke_o" -> "sp_fastinvoke_o"

\* The position of the callee among the operands of an invoke, which is
\* also the number of operands it has.
CalleeAt(op) == IF op = "invoke_v" THEN 1 ELSE 2

\* The code object the callee of the current invoke resolves to, NULL when
\* its value is not known or resolves to no code object.
InvokeTarget ==
    IF KNOWN_VALUE \in FactsOf(CalleeAt(CurIns.op)).flags
    THEN ResolveTarget(FactsOf(CalleeAt(CurIns.op)).value, call_info)
    ELSE NULL

InvokeCands ==
    IF InvokeTarget = NULL THEN {}
    ELSE Qualifying(graph, InvokeTarget, call_info)

\* C17: an invoke whose callee resolves to a code object with a matching
\* candidate c (the lowest) becomes the fast-invoke op of its return kind
\* with c appended to its operands; an invoke without a matching candidate
\* or with an unknown callee keeps its op and its operands.  Every invoke
\* the driver hands over is one of the five the rule knows, so the rule
\* never ends in its error.
C17_FastInvoke ==
    [][(AtIns /\ CurIns.op \in InvokeOps) =>
          /\ opc'.phase # "fault"
          /\ StillThere
          /\ IF InvokeCands # {}
             THEN /\ InsAfter.op = FastInvokeOf(CurIns.op)
                  /\ \E c \in InvokeCands :
                        /\ \A i \in InvokeCands : c <= i
                        /\ InsAfter.o =
                              SubSeq(CurIns.o, 1, CalleeAt(CurIns.op))
                                  \o <<Lit(c)>>
             ELSE InsAfter = CurIns]_vars

\* An invoke_o of a known code object with a candidate for a concrete
\* argument of type 1 has become sp_fastinvoke_o result, callee, 0.
C17_Witness ==
    /\ opc.phase = "eliminate_dead_ins"
    /\ opc.run = 1
    /\ \E i \in 1..Len(graph.bbs[1].ins) :
          /\ graph.bbs[1].ins[i].op = "sp_fastinvoke_o"
          /\ Len(graph.bbs[1].ins[i].o) = 3
          /\ graph.bbs[1].ins[i].o[3] = Lit(0)
          /\ HasIns(graph_in.bbs[1].ins, graph.bbs[1].ins[i].id)
          /\ InsOf(graph_in, 1, graph.bbs[1].ins[i].id) =
                 Ins(graph.bbs[1].ins[i].id, "invoke_o",
                     SubSeq(graph.bbs[1].ins[i].o, 1, 2))

(***************************************************************************)
(* Claims about eliminate_dead_bbs.                                        *)
(***************************************************************************)
\* Block b is a successor of a block on the linear order.
IsSuccTarget(g, b) ==
    \E a \in OnList(g) :
        \E i \in 1..Len(g.bbs[a].succ) : g.bbs[a].succ[i] = b

\* The loop of eliminate_dead_bbs has ended; the renumbering is done.
BBsLoopEnded == opc.phase \in {"renumber", "eliminate_unused_log_guards"}

BBsReturned == opc.phase = "eliminate_unused_log_guards"

\* C18: when the loop of eliminate_dead_bbs has ended every block on the
\* linear order is the entry, or inlined, or a successor of a block on the
\* order; and if a block was dropped the blocks carry the indices 0, 1, ...
\* in linear order and num_bbs is the length of the order.
C18_OnlyReachableLeft ==
    /\ BBsLoopEnded =>
          \A b \in OnList(graph) :
              \/ b = graph.entry
              \/ graph.bbs[b].inlined # 0
              \/ IsSuccTarget(graph, b)
    /\ (BBsReturned /\ graph.num_bbs # opc.orig_bbs) =>
          /\ graph.num_bbs = Len(LinearOrder(graph))
          /\ \A i \in 1..Len(LinearOrder(graph)) :
                graph.bbs[LinearOrder(graph)[i]].idx = i - 1

(***************************************************************************)
(* Claims about the truth of a known integer flag and about rules that     *)
(* bail out.                                                               *)
(***************************************************************************)
\* What a step has made of the current instruction.
RewriteKind ==
    IF ~StillThere THEN "deleted"
    ELSE IF InsAfter = CurIns THEN "kept"
    ELSE InsAfter.op

\* What optimize_iffy makes of a branch in graph g.
IffyKind(g, b, ins) ==
    LET g2 == optimize_iffy(g, b, ins)
    IN IF ~HasIns(g2.bbs[b].ins, ins.id) THEN "deleted"
       ELSE IF InsOf(g2, b, ins.id) = ins THEN "kept"
       ELSE InsOf(g2, b, ins.id).op

\* The graph with the known value of the flag of the current branch set to v.
WithFlagValue(v) == [graph EXCEPT !.facts[CurIns.o[1].v].value = v]

AtKnownIntBranch ==
    /\ AtIns
    /\ CurIns.op \in {"if_i", "unless_i"}
    /\ KNOWN_VALUE \in FactsOf(1).flags

\* C21: for if_i and unless_i on a flag with KNOWN_VALUE every value that is
\* not 0 gets the rewrite that the value 1 gets, which is the goto for if_i
\* and the deletion for unless_i, and the value 0 gets the other one.
C21_IntTruth ==
    [][AtKnownIntBranch =>
          /\ IffyKind(WithFlagValue(1), opc.bb, CurIns) =
                 (IF CurIns.op = "if_i" THEN "goto" ELSE "deleted")
          /\ IffyKind(WithFlagValue(0), opc.bb, CurIns) =
                 (IF CurIns.op = "if_i" THEN "deleted" ELSE "goto")
          /\ RewriteKind = IffyKind(WithFlagValue(
                               IF FactsOf(1).value # 0 THEN 1 ELSE 0),
                               opc.bb, CurIns)]_vars

\* The current instruction is one of the rules of the list and the rule
\* does not know enough to rewrite it.
BailsOut ==
    /\ AtIns
    /\ \/ /\ CurIns.op = "isconcrete"
          /\ FactsOf(2).flags \cap {CONCRETE, TYPEOBJ} = {}
       \/ /\ CurIns.op = "istype"
          /\ \/ KNOWN_TYPE \notin FactsOf(2).flags
             \/ KNOWN_TYPE \notin FactsOf(3).flags
             \/ IstypeAnswer[1] = 0
       \/ /\ CurIns.op \in {"islist", "ishash", "isint", "isnum", "isstr"}
          /\ KNOWN_TYPE \notin FactsOf(2).flags
       \/ /\ CurIns.op \in TruthyOps
          /\ \/ KNOWN_VALUE \notin FactsOf(1).flags
             \/ /\ CurIns.op \in {"if_o", "unless_o"}
                /\ Objects[FactsOf(1).value].bool_mode = "CALL_METHOD"

\* C22: a rule that bails out leaves the graph as it was: instructions,
\* facts, usages, spesh slots and the used flag of every log guard.
C22_BailOutLeavesGraph ==
    [][BailsOut => graph' = graph]_vars

(***************************************************************************)
(* Claims about the call record, the log guards and the spesh slots.       *)
(***************************************************************************)
\* A call record with nothing in it.
EmptyCallInfo ==
    [cs           |-> NULL,
     prepargs_ins |-> NULL,
     arg_is_const |-> [i \in ArgSlots |-> 0],
     arg_facts    |-> [i \in ArgSlots |-> NULL],
     arg_ins      |-> [i \in ArgSlots |-> NULL]]

\* The index of the last prepargs among the first k instructions, or 0.
RECURSIVE LatestPrepargs(_, _)
LatestPrepargs(inss, k) ==
    IF k = 0 THEN 0
    ELSE IF inss[k].op = "prepargs" THEN k
    ELSE LatestPrepargs(inss, k - 1)

\* The record that holds what instructions i..j have written and nothing
\* else.
RECURSIVE RecordSince(_, _, _)
RecordSince(inss, i, j) ==
    IF j < i THEN EmptyCallInfo
    ELSE LET rec == RecordSince(inss, i, j - 1)
             ins == inss[j]
             idx == ins.o[1].v
         IN CASE ins.op = "prepargs" ->
                   [rec EXCEPT !.cs = CuCallsites[idx + 1],
                               !.prepargs_ins = ins.id]
              [] /\ ins.op \in {"arg_i", "arg_n", "arg_s", "arg_o"}
                 /\ idx < MAX_ARGS_FOR_OPT ->
                   [rec EXCEPT !.arg_is_const[idx + 1] = 0,
                               !.arg_facts[idx + 1] = ins.o[2].v,
                               !.arg_ins[idx + 1] = ins.id]
              [] /\ ins.op \in {"argconst_i", "argconst_n", "argconst_s"}
                 /\ idx < MAX_ARGS_FOR_OPT ->
                   [rec EXCEPT !.arg_is_const[idx + 1] = 1,
                               !.arg_ins[idx + 1] = ins.id]
              [] OTHER -> rec

\* The instructions of the current block before the current one, and the
\* record of what was written from the latest prepargs on.
InsBefore ==
    SubSeq(graph.bbs[opc.bb].ins, 1,
           IndexOfIns(graph.bbs[opc.bb].ins, opc.ins) - 1)

RecordSincePrepargs ==
    RecordSince(InsBefore, LatestPrepargs(InsBefore, Len(InsBefore)),
                Len(InsBefore))

AtInvokeAfterPrepargs ==
    /\ AtIns
    /\ CurIns.op \in InvokeOps
    /\ LatestPrepargs(InsBefore, Len(InsBefore)) # 0

\* C23: the call optimization of an invoke that follows a prepargs does
\* what it does on a record that holds only what was written from that
\* prepargs on, with no facts in every other slot.
C23_RecordResetByPrepargs ==
    [][AtInvokeAfterPrepargs =>
          /\ opc'.phase # "fault"
          /\ \E r \in optimize_call(graph, opc.bb, CurIns,
                                    CalleeAt(CurIns.op) - 1,
                                    RecordSincePrepargs) :
                graph' = r.g]_vars

\* The step rewrites or deletes the current instruction.
Rewritten == ~StillThere \/ InsAfter # CurIns

\* The current instruction has a register operand whose facts come from
\* log guard i (counted from 1).
TouchesGuard(i) ==
    \E n \in 1..Len(InsOperands(CurIns)) :
        /\ InsOperands(CurIns)[n] \in {"r", "w"}
        /\ FROM_LOG_GUARD \in FactsOf(n).flags
        /\ FactsOf(n).log_guard + 1 = i

GuardIn(g, i) ==
    HasIns(g.bbs[g.log_guards[i].bb].ins, g.log_guards[i].ins)

\* C24: the used flag of a log guard is set only by a step of the walk that
\* rewrites an instruction with facts from that guard, never by a rule that
\* looks at the facts and leaves the instruction or by the dead-instruction
\* pass, and it never goes back to 0; eliminate_unused_log_guards deletes
\* every guard whose flag is 0, so a guard left in the graph was consumed by
\* a rewrite.
C24_GuardKeptOnlyIfConsumed ==
    [][\A i \in DOMAIN graph.log_guards :
          /\ graph.log_guards[i].used = 1 => graph'.log_guards[i].used = 1
          /\ (graph.log_guards[i].used = 0 /\ graph'.log_guards[i].used = 1)
                => (AtIns /\ Rewritten /\ TouchesGuard(i))
          /\ (opc.phase = "eliminate_unused_log_guards"
                  /\ graph.log_guards[i].used = 0)
                => ~GuardIn(graph', i)]_vars

\* C25: a call of MVM_spesh_add_spesh_slot appends its value and changes
\* no earlier slot, returns the position the value is stored at, keeps the
\* number of slots within the capacity and grows the capacity by 8 or not
\* at all, so the index returned names the slot that holds the value.
C25_SlotsAppendOnly ==
    [][opc.phase = "add_spesh_slot" =>
          LET c  == opc'.stack[1].c
              idx == opc'.stack[1].ss
          IN /\ graph'.spesh_slots = Append(graph.spesh_slots, c)
             /\ idx = Len(graph.spesh_slots)
             /\ Len(graph'.spesh_slots) <= graph'.alloc_spesh_slots
             /\ graph'.alloc_spesh_slots - graph.alloc_spesh_slots \in {0, 8}
             /\ idx + 1 \in DOMAIN graph'.spesh_slots
             /\ graph'.spesh_slots[idx + 1] = c]_vars

(***************************************************************************)
(* Claims about the heap snapshot profiler.                                *)
(***************************************************************************)
\* The snapshots that hold data: the finished ones and the one being
\* recorded.
Recording == hpc.at \in {"process_workitems", "root", "panic"}

SnapshotsInUse ==
    IF MVM_profile_heap_profiling
    THEN { Col.snapshots[i] :
             i \in 1..(Col.num_snapshots + (IF Recording THEN 1 ELSE 0)) }
    ELSE {}

RECURSIVE SumRefs(_, _)
SumRefs(hs, n) ==
    IF n = 0 THEN 0 ELSE hs.collectables[n].num_refs + SumRefs(hs, n - 1)

\* The ranges of snapshot hs lie in the references array, do not overlap and
\* cover it.
RangesPartition(hs) ==
    LET C == 1..hs.num_collectables
        lo(c) == hs.collectables[c].refs_start
        hi(c) == hs.collectables[c].refs_start + hs.collectables[c].num_refs
    IN /\ \A c \in C : hi(c) <= hs.num_references
       /\ \A c, d \in C :
             c # d => \/ hi(c) <= lo(d)
                      \/ hi(d) <= lo(c)
                      \/ lo(c) = hi(c)
                      \/ lo(d) = hi(d)
       /\ SumRefs(hs, hs.num_collectables) = hs.num_references

NoDuplicates(s) == \A i, j \in DOMAIN s : i # j => s[i] # s[j]

HeapRanges ==
    /\ hpc.at # "panic"
    /\ \A hs \in SnapshotsInUse : RangesPartition(hs)
    /\ Recording => NoDuplicates(taken)

\* A reference is added at the end of the range of the collectable the
\* references are from, and no other range changes.
ReferenceAppended ==
    hpc.at = "root" =>
        LET hs  == CurSnapshot
            hs2 == heap_snapshots'[1].snapshots[Col.num_snapshots + 1]
            from == hs.collectables[ss.ref_from + 1]
        IN /\ hs2.num_references = hs.num_references + 1
           /\ hs.num_references = from.refs_start + from.num_refs
           /\ hs2.collectables[ss.ref_from + 1] =
                 [from EXCEPT !.num_refs = @ + 1]
           /\ \A c \in 1..hs.num_collectables :
                 c # ss.ref_from + 1 =>
                     hs2.collectables[c] = hs.collectables[c]
           /\ \A r \in 1..hs.num_references :
                 hs2.references[r] = hs.references[r]

\* process_workitems returns with nothing on the worklist and every
\* collectable index taken once.
WorklistDone ==
    (hpc.at = "process_workitems" /\ hpc'.at = "idle") =>
        /\ ss.num_workitems = 0
        /\ Len(taken) = CurSnapshot.num_collectables
        /\ { taken[i] : i \in DOMAIN taken } =
              0..(CurSnapshot.num_collectables - 1)

\* C26: while a heap snapshot is recorded, the references of each
\* collectable are one contiguous range [refs_start, refs_start + num_refs)
\* of the references array, the ranges of different collectables do not
\* overlap and their lengths sum to num_references; each collectable index is
\* popped from the worklist once, so set_ref_from never panics, and
\* process_workitems ends with an empty worklist.
C26_ContiguousRefs ==
    []HeapRanges /\ [][ReferenceAppended /\ WorklistDone]_vars

\* A snapshot is recorded: the root of roots has the references 0..3, the
\* four root collectables have the empty range at 4.
C26_Witness ==
    /\ hpc.at = "idle"
    /\ MVM_profile_heap_profiling
    /\ Col.num_snapshots >= 1
    /\ taken = <<0, 4, 3, 2, 1>>
    /\ LET hs == Col.snapshots[1]
       IN /\ hs.num_references = 4
          /\ hs.num_collectables = 5
          /\ hs.collectables[1] =
                [kind |-> "ROOT", refs_start |-> 0, num_refs |-> 4]
          /\ \A c \in 2..5 : /\ hs.collectables[c].refs_start = 4
                             /\ hs.collectables[c].num_refs = 0
          /\ \A r \in 1..4 : hs.references[r].collectable_index = r

(***************************************************************************)
(* Claims about the termination of eliminate_dead_bbs.                     *)
(***************************************************************************)
\* The second pass of this turn read linear_next through a null cur_bb.
NullLinearNextFollowed == opc'.phase = "fault"

\* The loop goes round again only after it took a block off the list.
TurnMakesProgress ==
    opc'.phase = "eliminate_dead_bbs" =>
        /\ graph'.num_bbs < graph.num_bbs
        /\ graph'.num_bbs >= 1

\* C27: eliminate_dead_bbs terminates normally on every graph: no turn of
\* its loop follows a null linear_next pointer in the second pass, and a turn
\* that is followed by another has taken a block off the list, so the loop
\* ends after at most num_bbs turns.
C27_DeadBBsTerminates ==
    [][opc.phase = "eliminate_dead_bbs" =>
          /\ ~NullLinearNextFollowed
          /\ TurnMakesProgress]_vars

\* The same without the null pointer: the turns that do not fault make
\* progress.
DeadBBsProgressOnly ==
    [][opc.phase = "eliminate_dead_bbs" => TurnMakesProgress]_vars

\* The turns that fault are those that unlink the last block of the list.
DeadBBsFaultIffLastUnlinked ==
    [][opc.phase = "eliminate_dead_bbs" =>
          (NullLinearNextFollowed <=>
              LET end_bb == LinearOrder(graph)[Len(LinearOrder(graph))]
              IN /\ end_bb # graph.entry
                 /\ end_bb \notin OnList(graph'))]_vars
====
